---- MODULE Spec2Model ----
(***************************************************************************)
(* A model of tfbindiff: structural instruction equality, the function     *)
(* comparator, the function matcher, the program comparison loop, the      *)
(* .eh_frame parser, the program loader, the diff of two instruction       *)
(* vectors and the split-diff builder, main and print_changes.             *)
(***************************************************************************)
EXTENDS Integers, Sequences, FiniteSets, TLC

VARIABLES
    insn_a, insn_b, insn_c, eqres,  \* three decoded instructions and the outcome of == on them
    func1, func2, cmp,              \* compare_functions: the two Functions and its outcome
    program1, program2,             \* the primary and the secondary Program
    unscanned, to_note, blocklist,  \* build_static_init_map: keys left, the map, the blocklist
    static_init_map,                \* FunctionMatcher.static_init_map
    pc,                             \* where the pipeline stands
    query, matched,                 \* match_name: the name asked for and the answer
    visited, changes,               \* compare_programs: primary names handled, the change list
    run, first,                     \* the run number and the list the first run returned
    eh_frame, parser,               \* get_fdes: the section it reads and the state of its loop
    object, loading,                \* Program::load: the object file and the state of the load
    diff_input, split,              \* build_split_diff: its arguments and the state of its loop
    process,                        \* main: the arguments, the output and the exit status
    printed,                        \* print_changes: the state of its loop and its output
    decoding                        \* read_encoded: its arguments and its outcome

vars == <<insn_a, insn_b, insn_c, eqres, func1, func2, cmp, program1, program2, unscanned, to_note,
          blocklist, static_init_map, pc, query, matched, visited, changes, run, first,
          eh_frame, parser, object, loading, diff_input, split, process, printed,
          decoding>>

(***************************************************************************)
(* Bounds of the model.                                                    *)
(***************************************************************************)
\* the longest function body, in instructions
MaxInstrs == 2
\* addresses of functions are 1..MaxAddr; a Program holds at most MaxAddr functions
MaxAddr == 2
\* the most entries of an .eh_frame section after its first CIE
MaxEntries == 2
\* the most symbols of an object
MaxSymbols == 2
\* the most diff ops handed to build_split_diff
MaxOps == 2
\* the longest Equal diff op
MaxEqualLen == 31
\* the most command-line arguments after the name of the program
MaxArgs == 3

(***************************************************************************)
(* Decoded instructions (iced_x86::Instruction behind InstructionWrapper). *)
(* Only 32-bit general registers occur; "None" is Register::None.          *)
(***************************************************************************)
Reg32 == <<"EAX", "ECX", "EDX", "EBX", "ESP", "EBP", "ESI", "EDI">>

\* the ModRM byte: mod (2 bits), reg (3 bits), rm (3 bits)
ModRM(byte) == [mod |-> byte \div 64, reg |-> (byte \div 8) % 8, rm |-> byte % 8]

\* the ModRM forms the model decodes: register-direct and [reg] without SIB or displacement
ModRMSupported(m) == m.mod = 3 \/ (m.mod = 0 /\ m.rm \notin {4, 5})

\* the r/m operand: a register (mod = 3) or a memory operand with a base register
RmKind(m) == IF m.mod = 3 THEN "Register" ELSE "Memory"
RmRegister(m) == IF m.mod = 3 THEN Reg32[m.rm + 1] ELSE "None"
RmBase(m) == IF m.mod = 3 THEN "None" ELSE Reg32[m.rm + 1]

\* an 8-bit immediate sign-extended (OpKind::Immediate8to32)
SignExtend8(byte) == IF byte < 128 THEN byte ELSE byte - 256

\* a little-endian 32-bit immediate (OpKind::Immediate32), read as unsigned
LittleEndian32(code, pos) ==
    code[pos] + 256 * code[pos + 1] + 65536 * code[pos + 2] + 16777216 * code[pos + 3]

\* Instruction::op_code().op_kinds(): the operand kinds of the opcode's definition,
\* a function of the Code value alone
OpCodeOpKinds(code) ==
    CASE code = "Nopd" -> <<>>
      [] code = "Sub_rm32_r32" -> <<"r32_or_mem", "r32_reg">>
      [] code = "Sub_r32_rm32" -> <<"r32_reg", "r32_or_mem">>
      [] code = "Mov_rm32_r32" -> <<"r32_or_mem", "r32_reg">>
      [] code = "Sub_rm32_imm8" -> <<"r32_or_mem", "imm8sex32">>
      [] code = "Sub_rm32_imm32" -> <<"r32_or_mem", "imm32">>
      [] code = "Mov_r32_imm32" -> <<"r32_opcode", "imm32">>
      [] OTHER -> <<>>

\* Instruction::mnemonic()
Mnemonic(code) ==
    CASE code \in {"Sub_rm32_r32", "Sub_r32_rm32", "Sub_rm32_imm8", "Sub_rm32_imm32"} -> "Sub"
      [] code \in {"Mov_rm32_r32", "Mov_r32_imm32"} -> "Mov"
      [] code = "Nopd" -> "Nop"
      [] OTHER -> "INVALID"

\* Instruction::op_count(): the operand count of the Code value
op_count(instr) == Len(OpCodeOpKinds(instr.code))

MkInstr(code, kinds, regs, base, imm, len, ip) ==
    [code |-> code, op_kinds |-> kinds, op_registers |-> regs, memory_base |-> base,
     immediate |-> imm, len |-> len, ip |-> ip]

\* Decoder::decode at 1-based offset pos of code, the function being loaded at address:
\* the instruction (with its length and ip). Bytes outside the decoded subset give
\* Code::INVALID taking the rest of the buffer.
DecodeAt(code, pos, address) ==
    LET n == Len(code)
        ip == address + pos - 1
        op == code[pos]
        m == IF pos + 1 <= n THEN ModRM(code[pos + 1]) ELSE ModRM(0)
        hasModRM == pos + 1 <= n /\ ModRMSupported(m)
    IN  CASE op = 144 ->
               MkInstr("Nopd", <<>>, <<>>, "None", 0, 1, ip)
          [] op = 41 /\ hasModRM ->
               MkInstr("Sub_rm32_r32", <<RmKind(m), "Register">>,
                       <<RmRegister(m), Reg32[m.reg + 1]>>, RmBase(m), 0, 2, ip)
          [] op = 43 /\ hasModRM ->
               MkInstr("Sub_r32_rm32", <<"Register", RmKind(m)>>,
                       <<Reg32[m.reg + 1], RmRegister(m)>>, RmBase(m), 0, 2, ip)
          [] op = 137 /\ hasModRM ->
               MkInstr("Mov_rm32_r32", <<RmKind(m), "Register">>,
                       <<RmRegister(m), Reg32[m.reg + 1]>>, RmBase(m), 0, 2, ip)
          [] op = 131 /\ hasModRM /\ m.reg = 5 /\ pos + 2 <= n ->
               MkInstr("Sub_rm32_imm8", <<RmKind(m), "Immediate8to32">>,
                       <<RmRegister(m), "None">>, RmBase(m), SignExtend8(code[pos + 2]), 3, ip)
          [] op = 129 /\ hasModRM /\ m.reg = 5 /\ pos + 5 <= n ->
               MkInstr("Sub_rm32_imm32", <<RmKind(m), "Immediate32">>,
                       <<RmRegister(m), "None">>, RmBase(m), LittleEndian32(code, pos + 2), 6, ip)
          [] op \in 184..191 /\ pos + 4 <= n ->
               MkInstr("Mov_r32_imm32", <<"Register", "Immediate32">>,
                       <<Reg32[op - 184 + 1], "None">>, "None", LittleEndian32(code, pos + 1), 5, ip)
          [] OTHER ->
               MkInstr("INVALID", <<>>, <<>>, "None", 0, n - pos + 1, ip)

\* InstructionIter as an iterator run to its end (collect()): next() decodes while
\* Decoder::can_decode(), i.e. while the position is inside the buffer
RECURSIVE CollectFrom(_, _, _)
CollectFrom(code, pos, address) ==
    IF pos > Len(code) THEN <<>>
    ELSE LET i == DecodeAt(code, pos, address)
         IN  <<i>> \o CollectFrom(code, pos + i.len, address)

\* create_instruction_iter(program, func).collect()
create_instruction_iter(func) == CollectFrom(func.content, 1, func.address)

(***************************************************************************)
(* impl PartialEq for InstructionWrapper                                   *)
(***************************************************************************)
\* Instruction::op_kind(i) and Instruction::op_register(i), 1-based here
op_kind(instr, i) == instr.op_kinds[i]
op_register(instr, i) == IF i <= Len(instr.op_registers) THEN instr.op_registers[i] ELSE "None"

\* self == other
eq(self, other) ==
    IF self.code = other.code /\ OpCodeOpKinds(self.code) = OpCodeOpKinds(other.code)
    THEN \A op_idx \in 1..op_count(self) :
            op_kind(self, op_idx) = "Register"
                => op_register(self, op_idx) = op_register(other, op_idx)
    ELSE FALSE

\* The specification's structural equivalence (section 4.3): same opcode, same ordered
\* operand kinds, same register at every register operand
StructurallyEqual(x, y) ==
    /\ x.code = y.code
    /\ x.op_kinds = y.op_kinds
    /\ \A i \in 1..Len(x.op_kinds) :
          x.op_kinds[i] = "Register" => x.op_registers[i] = y.op_registers[i]

(***************************************************************************)
(* compare.rs: the function comparator                                     *)
(***************************************************************************)
\* a variant that reads no immediate: every stack depth is 0
get_stack_depth_from_instruction_const(instr) == [todo |-> FALSE, depth |-> 0]

\* get_stack_depth_from_instruction: the immediate of operand 1 as i64; todo!() (a panic)
\* for any other operand kind
get_stack_depth_from_instruction(instr) ==
    CASE op_kind(instr, 2) = "Immediate8to32" -> [todo |-> FALSE, depth |-> instr.immediate]
      [] op_kind(instr, 2) = "Immediate32" -> [todo |-> FALSE, depth |-> instr.immediate]
      [] OTHER -> [todo |-> TRUE, depth |-> 0]

\* the condition of the stack-depth probe: sub esp, <depth> on both sides
IsSubEsp(instr1, instr2) ==
    /\ Mnemonic(instr1.code) = "Sub"
    /\ op_kind(instr1, 1) = "Register"
    /\ op_register(instr1, 1) = "ESP"
    /\ op_kind(instr2, 1) = "Register"
    /\ op_register(instr2, 1) = "ESP"

\* The loop of compare_functions over instructions1.zip_longest(instructions2), both
\* iterators decoding lazily: pos1, pos2 are the decoders' positions and decodes counts
\* the instructions decoded so far. Yields has_difference, whether todo!() was reached,
\* and the count.
RECURSIVE CompareLoop(_, _, _, _, _)
CompareLoop(f1, f2, pos1, pos2, decodes) ==
    LET end1 == pos1 > Len(f1.content)
        end2 == pos2 > Len(f2.content)
    IN  IF end1 /\ end2
        THEN [has_difference |-> FALSE, todo |-> FALSE, decodes |-> decodes]
        ELSE IF end1 \/ end2
        THEN [has_difference |-> TRUE, todo |-> FALSE, decodes |-> decodes + 1]
        ELSE LET instr1 == DecodeAt(f1.content, pos1, f1.address)
                 instr2 == DecodeAt(f2.content, pos2, f2.address)
             IN  IF ~eq(instr1, instr2)
                 THEN [has_difference |-> TRUE, todo |-> FALSE, decodes |-> decodes + 2]
                 ELSE IF IsSubEsp(instr1, instr2)
                 THEN LET stack_depth1 == get_stack_depth_from_instruction(instr1)
                          stack_depth2 == get_stack_depth_from_instruction(instr2)
                      IN  IF stack_depth1.todo \/ stack_depth2.todo
                          THEN [has_difference |-> FALSE, todo |-> TRUE,
                                decodes |-> decodes + 2]
                          ELSE [has_difference |-> stack_depth1.depth # stack_depth2.depth,
                                todo |-> FALSE, decodes |-> decodes + 2]
                 ELSE CompareLoop(f1, f2, pos1 + instr1.len, pos2 + instr2.len, decodes + 2)

\* compare_functions: "Same", "Differs" with both instruction vectors, or "Panic" when
\* the probe reached todo!(); decodes is the number of instructions the loop decoded
compare_functions(f1, f2) ==
    LET r == CompareLoop(f1, f2, 1, 1, 0)
    IN  IF r.todo
        THEN [kind |-> "Panic", instructions |-> <<>>, decodes |-> r.decodes]
        ELSE IF r.has_difference
        THEN [kind |-> "Differs",
              instructions |-> <<create_instruction_iter(f1), create_instruction_iter(f2)>>,
              decodes |-> r.decodes]
        ELSE [kind |-> "Same", instructions |-> <<>>, decodes |-> r.decodes]

(***************************************************************************)
(* matcher.rs: the function matcher. A name is a sequence of pieces; the   *)
(* pieces the pattern looks for are single pieces of the sequence.         *)
(***************************************************************************)
GlobalSubI == "_GLOBAL__sub_I_"
StdoutBuilder == ".stdout.rel_tf_osx_builder."
DotIi == ".ii"

\* STATIC_INITIALIZER_REGEX.captures(name) for
\* ^_?_GLOBAL__sub_I_(.*)\.stdout\.rel_tf_osx_builder\..*\.ii$ : whether the name matches
\* and capture group 1. The group is greedy: it runs to the last builder piece that
\* still leaves the final .ii after it.
STATIC_INITIALIZER_REGEX(name) ==
    LET n == Len(name)
        prefix == IF n >= 1 /\ name[1] = GlobalSubI THEN 1
                  ELSE IF n >= 2 /\ name[1] = "_" /\ name[2] = GlobalSubI THEN 2
                  ELSE 0
        cuts == {j \in (prefix + 1)..(n - 1) : name[j] = StdoutBuilder}
    IN  IF prefix > 0 /\ name[n] = DotIi /\ cuts # {}
        THEN LET j == CHOOSE k \in cuts : \A l \in cuts : l <= k
             IN  [matched |-> TRUE, filename |-> SubSeq(name, prefix + 1, j - 1)]
        ELSE [matched |-> FALSE, filename |-> <<>>]

None == [some |-> FALSE]
Some(v) == [some |-> TRUE, value |-> v]

\* HashMap::get
MapGet(map, key) == IF key \in DOMAIN map THEN Some(map[key]) ELSE None
\* HashMap::insert and HashMap::remove
MapInsert(map, key, v) == [k \in DOMAIN map \cup {key} |-> IF k = key THEN v ELSE map[k]]
MapRemove(map, key) == [k \in DOMAIN map \ {key} |-> map[k]]

\* a variant without the static-initializer fallback
match_name_direct_only(name) == MapGet(program2.functions, name)

\* a variant that consults the static-init map before the direct lookup
match_name_fallback_first(name) ==
    IF STATIC_INITIALIZER_REGEX(name).matched
    THEN LET name2 == MapGet(static_init_map, STATIC_INITIALIZER_REGEX(name).filename)
         IN  IF name2.some THEN MapGet(program2.functions, name2.value) ELSE None
    ELSE MapGet(program2.functions, name)

\* FunctionMatcher::match_name
match_name(name) ==
    IF MapGet(program2.functions, name).some
    THEN MapGet(program2.functions, name)
    ELSE IF STATIC_INITIALIZER_REGEX(name).matched
    THEN LET extracted_filename == STATIC_INITIALIZER_REGEX(name).filename
             name2 == MapGet(static_init_map, extracted_filename)
         IN  IF name2.some THEN MapGet(program2.functions, name2.value) ELSE None
    ELSE None

\* a variant of the loop body that keeps the first name noted for a filename
scan_name_keep_first(name, note, block) ==
    LET captures == STATIC_INITIALIZER_REGEX(name)
        extracted_filename == captures.filename
    IN  IF ~captures.matched \/ extracted_filename \in DOMAIN note
        THEN [static_initializers_to_note |-> note, static_initializer_blocklist |-> block]
        ELSE [static_initializers_to_note |-> MapInsert(note, extracted_filename, name),
              static_initializer_blocklist |-> block]

\* a variant of the loop body that keeps no blocklist: a third name with the same
\* filename is noted again
scan_name_no_blocklist(name, note, block) ==
    LET captures == STATIC_INITIALIZER_REGEX(name)
        extracted_filename == captures.filename
    IN  IF ~captures.matched
        THEN [static_initializers_to_note |-> note, static_initializer_blocklist |-> block]
        ELSE IF extracted_filename \notin DOMAIN note
        THEN [static_initializers_to_note |-> MapInsert(note, extracted_filename, name),
              static_initializer_blocklist |-> block]
        ELSE [static_initializers_to_note |-> MapRemove(note, extracted_filename),
              static_initializer_blocklist |-> block]

\* the body of the loop of build_static_init_map for one key: the map and the blocklist
\* after it
scan_name(name, note, block) ==
    LET captures == STATIC_INITIALIZER_REGEX(name)
        extracted_filename == captures.filename
    IN  IF ~captures.matched \/ extracted_filename \in block
        THEN [static_initializers_to_note |-> note, static_initializer_blocklist |-> block]
        ELSE IF extracted_filename \notin DOMAIN note
        THEN [static_initializers_to_note |-> MapInsert(note, extracted_filename, name),
              static_initializer_blocklist |-> block]
        ELSE [static_initializers_to_note |-> MapRemove(note, extracted_filename),
              static_initializer_blocklist |-> block \cup {extracted_filename}]

(***************************************************************************)
(* compare.rs: compare_programs                                            *)
(***************************************************************************)
\* FunctionChange::new
FunctionChange(info, name, address1, address2) ==
    [info |-> info, name |-> name, address1 |-> address1, address2 |-> address2]

\* insertion of x into a list sorted by address1, after every element whose address1 is
\* not larger (the sort is stable)
RECURSIVE InsertByAddress1(_, _)
InsertByAddress1(x, sorted) ==
    IF sorted = <<>> THEN <<x>>
    ELSE IF Head(sorted).address1 <= x.address1
    THEN <<Head(sorted)>> \o InsertByAddress1(x, Tail(sorted))
    ELSE <<x>> \o sorted

RECURSIVE StableSortByAddress1(_)
StableSortByAddress1(list) ==
    IF list = <<>> THEN <<>>
    ELSE InsertByAddress1(list[Len(list)], StableSortByAddress1(SubSeq(list, 1, Len(list) - 1)))

\* a variant of the sort that compares address2
RECURSIVE InsertByAddress2(_, _)
InsertByAddress2(x, sorted) ==
    IF sorted = <<>> THEN <<x>>
    ELSE IF Head(sorted).address2 <= x.address2
    THEN <<Head(sorted)>> \o InsertByAddress2(x, Tail(sorted))
    ELSE <<x>> \o sorted

RECURSIVE sort_by_address2(_)
sort_by_address2(list) ==
    IF list = <<>> THEN <<>>
    ELSE InsertByAddress2(list[Len(list)], sort_by_address2(SubSeq(list, 1, Len(list) - 1)))

\* a variant that leaves the list in the order the changes were pushed
sort_not_done(list) == list

\* changes.sort_by(|a, b| a.address1.cmp(&b.address1))
sort_by_address1(list) == StableSortByAddress1(list)

\* the body of the loop for MatchResult::Matched((func1, func2)): the list after it
PushIfDiffers(list, f1, f2) ==
    LET r == compare_functions(f1, f2)
    IN  IF r.kind = "Differs"
        THEN Append(list, FunctionChange(r.instructions, program1.symbol_map[f1.address],
                                         f1.address, f2.address))
        ELSE list

(***************************************************************************)
(* The inputs the model is run on.                                         *)
(***************************************************************************)
\* machine code of single instructions, as bytes
EncNop == <<144>>
EncSubEsp8_16 == <<131, 236, 16>>
EncSubEsp8_32 == <<131, 236, 32>>
EncSubEsp32_16 == <<129, 236, 16, 0, 0, 0>>
EncSubEsp32_32 == <<129, 236, 32, 0, 0, 0>>
EncSubEspEax == <<41, 196>>
EncSubEbxEax == <<41, 195>>
EncSubMemEax == <<41, 1>>
EncSubEspMem == <<43, 32>>
EncMovEaxEbx == <<137, 216>>
EncMovEaxEcx == <<137, 200>>
EncMovEaxImm1 == <<184, 1, 0, 0, 0>>
EncMovEaxImm2 == <<184, 2, 0, 0, 0>>

\* the instructions == is evaluated on
InstrEncodings ==
    {EncNop, EncSubEsp8_16, EncSubEsp8_32, EncSubEsp32_16, EncSubEspEax, EncSubEbxEax,
     EncSubMemEax, EncSubEspMem, EncMovEaxEbx, EncMovEaxEcx, EncMovEaxImm1, EncMovEaxImm2}
Instrs == {DecodeAt(e, 1, 1) : e \in InstrEncodings}

\* the instructions function bodies are made of
Encodings ==
    {EncSubEsp8_16, EncSubEsp8_32, EncSubEsp32_16, EncSubEsp32_32, EncSubEspEax,
     EncSubMemEax, EncMovEaxEbx, EncMovEaxEcx}

RECURSIVE ContentsOfLen(_)
ContentsOfLen(n) ==
    IF n = 0 THEN {<<>>}
    ELSE {e \o t : e \in Encodings, t \in ContentsOfLen(n - 1)}

\* function bodies of at most MaxInstrs instructions
Contents == UNION {ContentsOfLen(n) : n \in 0..MaxInstrs}

\* function names
NameMain == <<"main">>
NameFooA == <<GlobalSubI, "foo", StdoutBuilder, "A", DotIi>>
NameFooB == <<GlobalSubI, "foo", StdoutBuilder, "B", DotIi>>
NameFooC == <<GlobalSubI, "foo", StdoutBuilder, "C", DotIi>>
NameUFooA == <<"_", GlobalSubI, "foo", StdoutBuilder, "A", DotIi>>
NameBarA == <<GlobalSubI, "bar", StdoutBuilder, "A", DotIi>>
NameNoIi == <<GlobalSubI, "foo", StdoutBuilder, "A">>
NameTwice == <<GlobalSubI, "foo", StdoutBuilder, "x", StdoutBuilder, "A", DotIi>>

MatchNameSeq ==
    <<NameMain, NameFooA, NameFooB, NameFooC, NameUFooA, NameBarA, NameNoIi, NameTwice>>
MatchNames == {MatchNameSeq[i] : i \in DOMAIN MatchNameSeq}
ProgNames == {NameMain, NameFooA, NameFooB}
SecondaryNames == {NameMain, NameFooB, NameFooC, NameUFooA}
ProgContents == {EncMovEaxEbx, EncSubEspEax}

\* a Program as Program::load leaves it: the name of a function is the symbol at its
\* address, so no two functions share an address and symbol_map leads back to the name
\* (pointer_size is 4 in every Program, so the assertion that opens compare_programs
\* holds and the decoder runs in 32-bit mode)
MkProgram(fs) ==
    [pointer_size |-> 4,
     functions |-> fs,
     symbol_map |-> [ad \in {fs[n].address : n \in DOMAIN fs} |->
                        CHOOSE n \in DOMAIN fs : fs[n].address = ad]]

FunctionsOver(names, contents) ==
    UNION {{fs \in [K -> [address : 1..MaxAddr, content : contents]] :
                \A x, y \in K : x # y => fs[x].address # fs[y].address} :
           K \in SUBSET names}

Programs == {MkProgram(fs) : fs \in FunctionsOver(ProgNames, ProgContents)}

\* the address of a secondary function: its name's place in MatchNameSeq
NameAddress(n) == CHOOSE i \in DOMAIN MatchNameSeq : MatchNameSeq[i] = n

\* secondary Programs for compare_programs: any functions under any of SecondaryNames
SecondaryPrograms ==
    UNION {{MkProgram([n \in K |-> [address |-> NameAddress(n), content |-> body[n]]]) :
                body \in [K -> ProgContents]} :
           K \in SUBSET SecondaryNames}

\* secondary Programs for the matcher alone: any set of the names
MatchPrograms ==
    {MkProgram([n \in K |-> [address |-> NameAddress(n), content |-> EncNop]]) :
     K \in SUBSET MatchNames}

EmptyMap == [k \in {} |-> k]
EmptyProgram == MkProgram(EmptyMap)
EmptyFunction == [address |-> 1, content |-> <<>>]
NoInstr == MkInstr("INVALID", <<>>, <<>>, "None", 0, 0, 0)
NoCmp == [kind |-> "None", instructions |-> <<>>, decodes |-> 0]
NoEq == [done |-> FALSE]

(***************************************************************************)
(* eh_frame.rs: the .eh_frame parser. A stream is its bytes and the offset *)
(* at which the underlying reader fails (NoFault for a reader that never   *)
(* fails, as a Cursor over memory); positions are 0-based offsets. The     *)
(* addresses of FDEs and the lengths are written as integers.              *)
(***************************************************************************)
NoFault == -1

\* outcomes of the parsing functions: a value and the position after it, an
\* EhFrameError (err is the variant, kind the io::ErrorKind of an Io or Leb error), or
\* a panic (assert!, todo!(), unwrap, overflow check)
Ok(pos, val) == [st |-> "Ok", err |-> "", kind |-> "", pos |-> pos, val |-> val]
Err(err, kind, pos) == [st |-> "Err", err |-> err, kind |-> kind, pos |-> pos, val |-> 0]
Panic(pos) == [st |-> "Panic", err |-> "", kind |-> "", pos |-> pos, val |-> 0]

\* `let x = v; Body`: v is evaluated once
With(v, Body(_)) == CHOOSE out \in {Body(x) : x \in {v}} : TRUE

\* `let x = r?; Body`: the error (or panic) of r is the outcome, an Ok goes on to Body
Try(r, Body(_)) == With(r, LAMBDA x : IF x.st # "Ok" THEN x ELSE Body(x))

\* Read::read_exact of n bytes: the bytes, ErrorKind::Other when the read reaches the
\* reader's fault, ErrorKind::UnexpectedEof when it reaches the end of the data
read_exact(s, pos, n) ==
    IF s.fault >= pos /\ s.fault < pos + n /\ s.fault < Len(s.data)
    THEN Err("Io", "Other", pos)
    ELSE IF pos + n > Len(s.data)
    THEN Err("Io", "UnexpectedEof", Len(s.data))
    ELSE Ok(pos + n, SubSeq(s.data, pos + 1, pos + n))

\* little-endian values of byte strings (u32 and u64 below 2^31, i32 in full)
U32LE(b) == b[1] + 256 * b[2] + 65536 * b[3] + 16777216 * b[4]
I32LE(b) == b[1] + 256 * b[2] + 65536 * b[3]
            + 16777216 * (IF b[4] >= 128 THEN b[4] - 256 ELSE b[4])
U64LE(b) == IF SubSeq(b, 5, 8) = <<0, 0, 0, 0>> THEN U32LE(SubSeq(b, 1, 4)) ELSE -1

\* ReadBytesExt::read_u8, read_u32, read_i32, read_u64
read_u8(s, pos) == Try(read_exact(s, pos, 1), LAMBDA r : Ok(r.pos, r.val[1]))
read_u32(s, pos) == Try(read_exact(s, pos, 4), LAMBDA r : Ok(r.pos, U32LE(r.val)))
read_i32(s, pos) == Try(read_exact(s, pos, 4), LAMBDA r : Ok(r.pos, I32LE(r.val)))
read_u64(s, pos) == Try(read_exact(s, pos, 8), LAMBDA r : Ok(r.pos, U64LE(r.val)))

\* leb128::read::unsigned: seven bits a byte, least significant first, until a byte
\* without the continuation bit; val is <<value, 128^(number of bytes)>>. An I/O error
\* becomes leb128::read::Error::IoError.
RECURSIVE leb128_read(_, _)
leb128_read(s, pos) ==
    With(read_u8(s, pos), LAMBDA r :
        IF r.st # "Ok" THEN Err("Leb", r.kind, r.pos)
        ELSE IF r.val < 128 THEN Ok(r.pos, <<r.val, 128>>)
        ELSE Try(leb128_read(s, r.pos), LAMBDA rest :
                 Ok(rest.pos, <<(r.val - 128) + 128 * rest.val[1], 128 * rest.val[2]>>)))

leb128_read_unsigned(s, pos) == Try(leb128_read(s, pos), LAMBDA r : Ok(r.pos, r.val[1]))

\* leb128::read::signed: the same bytes, the value sign-extended from the last byte
leb128_read_signed(s, pos) ==
    Try(leb128_read(s, pos), LAMBDA r :
        Ok(r.pos, IF 2 * r.val[1] >= r.val[2] THEN r.val[1] - r.val[2] ELSE r.val[1]))

\* the values of EhPointerFormat and EhPointerApplication (TryFromPrimitive)
DW_EH_PE_absptr == 0
DW_EH_PE_sdata4 == 11
DW_EH_PE_pcrel == 16
EhPointerFormat == {0, 1, 2, 3, 4, 9, 10, 11, 12}
EhPointerApplication == {16, 32, 48, 64, 80}

\* A u64 in full: its four 16-bit limbs, least significant first.
\* u64::from of a u32 and `as u64` of an i32, from the four bytes read
U64FromU32(b) == <<b[1] + 256 * b[2], b[3] + 256 * b[4], 0, 0>>
U64FromI32(b) ==
    <<b[1] + 256 * b[2], b[3] + 256 * b[4], IF b[4] >= 128 THEN 65535 ELSE 0,
      IF b[4] >= 128 THEN 65535 ELSE 0>>

\* the u64 of a position or an address of the model
U64(n) == <<n % 65536, n \div 65536, 0, 0>>

\* the integer with the same low 32 bits as a u64 within 2^31 of 0 or of 2^64
AsInteger(x) ==
    CASE x[3] = 0 /\ x[4] = 0 /\ x[2] < 32768 -> x[1] + 65536 * x[2]
      [] x[3] = 65535 /\ x[4] = 65535 /\ x[2] >= 32768 -> x[1] + 65536 * (x[2] - 65536)

\* the sum of two u64 limb by limb, with the carry out of the last limb
AddWithCarry(a, b) ==
    LET carry1 == (a[1] + b[1]) \div 65536
        carry2 == (a[2] + b[2] + carry1) \div 65536
        carry3 == (a[3] + b[3] + carry2) \div 65536
    IN  [sum |-> <<(a[1] + b[1]) % 65536, (a[2] + b[2] + carry1) % 65536,
                   (a[3] + b[3] + carry2) % 65536, (a[4] + b[4] + carry3) % 65536>>,
         carry |-> (a[4] + b[4] + carry3) \div 65536]

\* u64::wrapping_add
wrapping_add(a, b) == AddWithCarry(a, b).sum

\* read_encoded_no_application: val is the u64
read_encoded_no_application(s, pos, format, pointer_size) ==
    IF format = DW_EH_PE_absptr
    THEN IF pointer_size = 4
         THEN Try(read_exact(s, pos, 4), LAMBDA r : Ok(r.pos, U64FromU32(r.val)))
         ELSE Panic(pos)
    ELSE IF format = DW_EH_PE_sdata4
    THEN Try(read_exact(s, pos, 4), LAMBDA r : Ok(r.pos, U64FromI32(r.val)))
    ELSE Panic(pos)

\* a variant that takes the raw value for the address: the application is dropped
read_encoded_unapplied(s, pos, format, application, pointer_size, base_address) ==
    read_encoded_no_application(s, pos, format, pointer_size)

\* a variant that adds with `+`: an overflow of the addition is a panic
read_encoded_checked_add(s, pos, format, application, pointer_size, base_address) ==
    Try(read_encoded_no_application(s, pos, format, pointer_size), LAMBDA unapplied_value :
        IF application # DW_EH_PE_pcrel THEN Panic(unapplied_value.pos)
        ELSE With(AddWithCarry(base_address, U64(pos)), LAMBDA with_offset :
             With(AddWithCarry(with_offset.sum, unapplied_value.val), LAMBDA applied :
                 IF with_offset.carry + applied.carry > 0 THEN Panic(unapplied_value.pos)
                 ELSE Ok(unapplied_value.pos, applied.sum))))

\* read_encoded: the raw value, then base_address + offset of the raw value + raw value
\* for pcrel, the additions wrapping; base_address and val are u64
read_encoded(s, pos, format, application, pointer_size, base_address) ==
    Try(read_encoded_no_application(s, pos, format, pointer_size), LAMBDA unapplied_value :
        IF application = DW_EH_PE_pcrel
        THEN Ok(unapplied_value.pos,
                wrapping_add(wrapping_add(base_address, U64(pos)), unapplied_value.val))
        ELSE Panic(unapplied_value.pos))

\* the characters of augmentation strings
CharZ == 122
CharE == 101
CharH == 104
CharL == 76
CharP == 80
CharR == 82

\* str.contains(sub)
Contains(str, sub) ==
    \E i \in 1..(Len(str) - Len(sub) + 1) : SubSeq(str, i, i + Len(sub) - 1) = sub

\* Cie::parse, the loop that reads the NUL-terminated augmentation string
RECURSIVE ReadAugmentationString(_, _, _)
ReadAugmentationString(s, pos, augmentation_string) ==
    Try(read_u8(s, pos), LAMBDA augmentation :
        IF augmentation.val = 0 THEN Ok(augmentation.pos, augmentation_string)
        ELSE ReadAugmentationString(s, augmentation.pos,
                                    Append(augmentation_string, augmentation.val)))

\* Cie::parse, the loop over the characters of the augmentation string, run when the
\* CIE has augmentation data: i is the iterator's place in the string, aug the cursor
\* over the augmentation data; val is the Cie
RECURSIVE AugmentationLoop(_, _, _, _, _, _)
AugmentationLoop(str, i, aug, apos, pointer_size, cie) ==
    IF i > Len(str) THEN Ok(apos, cie)
    ELSE IF str[i] = CharZ THEN AugmentationLoop(str, i + 1, aug, apos, pointer_size, cie)
    ELSE IF str[i] = CharE
    THEN IF i + 1 <= Len(str) /\ str[i + 1] = CharH
         THEN AugmentationLoop(str, i + 2, aug, apos, pointer_size, cie)
         ELSE Panic(apos)
    ELSE IF str[i] = CharL
    THEN Try(read_u8(aug, apos), LAMBDA pointer_format :
             AugmentationLoop(str, i + 1, aug, pointer_format.pos, pointer_size, cie))
    ELSE IF str[i] = CharP
    THEN Try(read_u8(aug, apos), LAMBDA b :
             IF (b.val % 16) \notin EhPointerFormat
             THEN Err("PointerFormatDecode", "", b.pos)
             ELSE With(read_encoded_no_application(aug, b.pos, b.val % 16, pointer_size),
                       LAMBDA personality_routine :
                           IF personality_routine.st = "Panic" THEN personality_routine
                           ELSE AugmentationLoop(str, i + 1, aug, personality_routine.pos,
                                                 pointer_size, cie)))
    ELSE IF str[i] = CharR
    THEN Try(read_u8(aug, apos), LAMBDA b :
             IF (b.val % 16) \notin EhPointerFormat
             THEN Err("PointerFormatDecode", "", b.pos)
             ELSE IF (b.val - (b.val % 16)) \notin EhPointerApplication
             THEN Err("PointerApplicationDecode", "", b.pos)
             ELSE AugmentationLoop(str, i + 1, aug, b.pos, pointer_size,
                                   [fde_pointer_format |-> Some(b.val % 16),
                                    fde_pointer_application |-> Some(b.val - (b.val % 16))]))
    ELSE Panic(apos)

\* Cie::parse, from the augmentation length on, for a string with 'z': the augmentation
\* data is read and interpreted; val is the Cie
CieAugmentationData(s, pos, augmentation_string, pointer_size) ==
    Try(leb128_read_unsigned(s, pos), LAMBDA augmentation_data_length :
    Try(read_exact(s, augmentation_data_length.pos, augmentation_data_length.val), LAMBDA buf :
    With(AugmentationLoop(augmentation_string, 1, [data |-> buf.val, fault |-> NoFault], 0,
                          pointer_size,
                          [fde_pointer_format |-> None, fde_pointer_application |-> None]),
         LAMBDA parsed :
             IF parsed.st = "Ok" THEN Ok(buf.pos, parsed.val)
             ELSE IF parsed.st = "Err" THEN Err(parsed.err, parsed.kind, buf.pos)
             ELSE Panic(buf.pos))))

\* Cie::parse from the version byte on; val is the Cie. The results of the two alignment
\* factors are dropped, errors included.
Cie_parse(s, pos, pointer_size) ==
    Try(read_u8(s, pos), LAMBDA version :
    IF version.val # 1 THEN Panic(version.pos)
    ELSE
    Try(ReadAugmentationString(s, version.pos, <<>>), LAMBDA augmentation_string :
    Try(IF Contains(augmentation_string.val, <<CharE, CharH>>)
        THEN IF pointer_size = 4 THEN read_u32(s, augmentation_string.pos)
             ELSE Panic(augmentation_string.pos)
        ELSE Ok(augmentation_string.pos, 0), LAMBDA eh_data :
    With(leb128_read_unsigned(s, eh_data.pos), LAMBDA code_alignment_factor :
    With(leb128_read_signed(s, code_alignment_factor.pos), LAMBDA data_alignment_factor :
    Try(read_u8(s, data_alignment_factor.pos), LAMBDA return_address_register :
    IF return_address_register.val >= 128 THEN Panic(return_address_register.pos)
    ELSE IF ~Contains(augmentation_string.val, <<CharZ>>)
    THEN Ok(return_address_register.pos,
            [fde_pointer_format |-> None, fde_pointer_application |-> None])
    ELSE CieAugmentationData(s, return_address_register.pos, augmentation_string.val,
                             pointer_size)))))))

\* Fde::parse from the byte after the CIE pointer; val is the Fde. The subtraction that
\* locates the CIE panics on underflow in a build with overflow checks and wraps to an
\* offset that holds no CIE in a build without
Fde_parse(s, pos, cie_pointer, cies, pointer_size, base_address, overflow_checks) ==
    With(pos - cie_pointer - 4, LAMBDA absolute_cie_pointer :
    IF absolute_cie_pointer < 0 /\ overflow_checks THEN Panic(pos)
    ELSE IF absolute_cie_pointer \notin DOMAIN cies THEN Err("InvalidCie", "", pos)
    ELSE
    With(cies[absolute_cie_pointer], LAMBDA cie :
    IF ~cie.fde_pointer_format.some THEN Err("InvalidCie", "", pos)
    ELSE IF ~cie.fde_pointer_application.some THEN Err("InvalidCie", "", pos)
    ELSE
    Try(read_encoded(s, pos, cie.fde_pointer_format.value,
                     cie.fde_pointer_application.value, pointer_size, U64(base_address)),
        LAMBDA pc_begin :
    Try(IF pointer_size = 4 THEN read_u32(s, pc_begin.pos) ELSE Panic(pc_begin.pos),
        LAMBDA pc_range :
    Ok(pc_range.pos, [begin |-> AsInteger(pc_begin.val), length |-> pc_range.val])))))

\* a variant that leaves the reader where the parser of the CIE or FDE stopped
EntryBody_stay(s, entry_offset, start_pos, length, pointer_size, cies, base_address, overflow_checks) ==
    Try(read_u32(s, start_pos), LAMBDA cie_id :
    Try(IF cie_id.val = 0 THEN Cie_parse(s, cie_id.pos, pointer_size)
        ELSE Fde_parse(s, cie_id.pos, cie_id.val, cies, pointer_size, base_address,
                       overflow_checks), LAMBDA entry :
    IF entry.pos - start_pos > length THEN Panic(entry.pos)
    ELSE Ok(entry.pos,
            IF cie_id.val = 0 THEN <<"Cie", entry_offset, entry.val>>
            ELSE <<"Fde", entry.val>>)))

\* a variant that seeks from the start of the stream instead of from where it stands
EntryBody_seek(s, entry_offset, start_pos, length, pointer_size, cies, base_address, overflow_checks) ==
    Try(read_u32(s, start_pos), LAMBDA cie_id :
    Try(IF cie_id.val = 0 THEN Cie_parse(s, cie_id.pos, pointer_size)
        ELSE Fde_parse(s, cie_id.pos, cie_id.val, cies, pointer_size, base_address,
                       overflow_checks), LAMBDA entry :
    IF entry.pos - start_pos > length THEN Panic(entry.pos)
    ELSE Ok(length - (entry.pos - start_pos),
            IF cie_id.val = 0 THEN <<"Cie", entry_offset, entry.val>>
            ELSE <<"Fde", entry.val>>)))

\* parse_eh_frame_entry from the CIE id on, the length being read: start_pos is the
\* position after the length
EntryBody(s, entry_offset, start_pos, length, pointer_size, cies, base_address, overflow_checks) ==
    Try(read_u32(s, start_pos), LAMBDA cie_id :
    Try(IF cie_id.val = 0 THEN Cie_parse(s, cie_id.pos, pointer_size)
        ELSE Fde_parse(s, cie_id.pos, cie_id.val, cies, pointer_size, base_address,
                       overflow_checks), LAMBDA entry :
    IF entry.pos - start_pos > length THEN Panic(entry.pos)
    ELSE Ok(entry.pos + (length - (entry.pos - start_pos)),
            IF cie_id.val = 0 THEN <<"Cie", entry_offset, entry.val>>
            ELSE <<"Fde", entry.val>>)))

\* parse_eh_frame_entry: val is <<"None">>, <<"Cie", offset, cie>> or <<"Fde", fde>>
parse_eh_frame_entry(s, pos, pointer_size, cies, base_address, overflow_checks) ==
    With(read_exact(s, pos, 4), LAMBDA length_bytes :
    IF length_bytes.st # "Ok"
    THEN IF length_bytes.kind = "UnexpectedEof" THEN Ok(length_bytes.pos, <<"None">>)
         ELSE length_bytes
    ELSE
    Try(IF length_bytes.val = <<255, 255, 255, 255>> THEN read_u64(s, length_bytes.pos)
        ELSE Ok(length_bytes.pos, U32LE(length_bytes.val)), LAMBDA length :
    IF length.val = 0 THEN Ok(length.pos, <<"None">>)
    ELSE EntryBody(s, pos, length.pos, length.val, pointer_size, cies, base_address,
                   overflow_checks)))

(***************************************************************************)
(* .eh_frame sections the parser is run on: a section is written from a    *)
(* list of entry descriptions, so that what the parser returns can be set  *)
(* against what was written.                                               *)
(***************************************************************************)
\* the bytes of a u32 below 2^31, of an i32, and of a pointer-sized unsigned
U32Bytes(n) == <<n % 256, (n \div 256) % 256, (n \div 65536) % 256, n \div 16777216>>
I32Bytes(v) ==
    IF v >= 0 THEN U32Bytes(v)
    ELSE LET w == (-v) - 1
         IN  <<255 - (w % 256), 255 - ((w \div 256) % 256), 255 - ((w \div 65536) % 256),
               255 - (w \div 16777216)>>
PointerBytes(n, pointer_size) ==
    IF pointer_size = 4 THEN U32Bytes(n) ELSE U32Bytes(n) \o <<0, 0, 0, 0>>

\* descriptions of CIEs: version, augmentation string, augmentation data, and the form
\* of the length field
CieDesc(version, augmentation, data) ==
    [type |-> "cie", version |-> version, augmentation |-> augmentation, data |-> data,
     form |-> "plain"]
CieSdata4Pcrel == CieDesc(1, <<CharZ, CharR>>, <<27>>)
CieAbsptrPcrel == CieDesc(1, <<CharZ, CharR>>, <<16>>)
CieUdata4Pcrel == CieDesc(1, <<CharZ, CharR>>, <<19>>)
CieSdata4Textrel == CieDesc(1, <<CharZ, CharR>>, <<43>>)
CieSdata4NoApplication == CieDesc(1, <<CharZ, CharR>>, <<11>>)
CieBadFormat == CieDesc(1, <<CharZ, CharR>>, <<21>>)
CiePersonality == CieDesc(1, <<CharZ, CharP, CharL, CharR>>, <<11, 0, 1, 0, 0, 27, 27>>)
CieEh == CieDesc(1, <<CharZ, CharR, CharE, CharH>>, <<27>>)
CieNoAugmentation == CieDesc(1, <<>>, <<>>)
CieUnknownWithZ == CieDesc(1, <<CharZ, 88>>, <<27>>)
CieUnknownWithoutZ == CieDesc(1, <<88>>, <<>>)
CieVersion3 == CieDesc(3, <<CharZ, CharR>>, <<27>>)

FirstCies ==
    {CieSdata4Pcrel, CieAbsptrPcrel, CieUdata4Pcrel, CieSdata4Textrel, CieSdata4NoApplication,
     CieBadFormat, CiePersonality, CieEh, CieNoAugmentation, CieUnknownWithZ,
     CieUnknownWithoutZ, CieVersion3}

\* descriptions of FDEs: the function's address and length, and where the CIE pointer
\* leads: to the last CIE written, to an offset that holds no CIE, or before the section
FdeDesc(begin, length, cie) ==
    [type |-> "fde", begin |-> begin, length |-> length, cie |-> cie, form |-> "plain"]

\* an entry whose length is written as 0xFFFFFFFF and an 8-byte extended length, and an
\* entry whose length field declares fewer bytes than its fields take
Extended(d) == [d EXCEPT !.form = "extended"]
Short(d) == [d EXCEPT !.form = "short"]

\* the length field of an entry with the given body
LengthBytes(d, body) ==
    CASE d.form = "extended" -> <<255, 255, 255, 255>> \o U32Bytes(Len(body)) \o <<0, 0, 0, 0>>
      [] d.form = "short" -> U32Bytes(Len(body) - 8)
      [] OTHER -> U32Bytes(Len(body))
HeaderLen(d) == IF d.form = "extended" THEN 12 ELSE 4

\* the entries that follow the first CIE
LaterEntries ==
    {FdeDesc(256, 2, "last"), FdeDesc(260, 4, "last"), FdeDesc(256, 2, "no such"),
     FdeDesc(256, 2, "underflow"), CieSdata4Pcrel, Extended(FdeDesc(264, 2, "last")),
     Short(FdeDesc(256, 2, "last")), Short(CieSdata4Pcrel)}

\* the bytes of a CIE: length, CIE id 0, version, augmentation string, EH data for "eh",
\* code alignment 1, data alignment -4, return address register 8, augmentation data
\* behind its length for 'z', one byte of padding
CieBytes(d, pointer_size) ==
    LET body == <<0, 0, 0, 0, d.version>> \o d.augmentation \o <<0>>
                \o (IF Contains(d.augmentation, <<CharE, CharH>>)
                    THEN PointerBytes(0, pointer_size) ELSE <<>>)
                \o <<1, 124, 8>>
                \o (IF Contains(d.augmentation, <<CharZ>>) THEN <<Len(d.data)>> \o d.data
                    ELSE <<>>)
                \o <<0>>
    IN  LengthBytes(d, body) \o body

\* the bytes of an FDE written at offset: length, CIE pointer, pc_begin as a 4-byte value
\* relative to its own place, pc_range as a pointer-sized unsigned, an empty augmentation
\* data length and two bytes of padding
FdeBytes(d, offset, cie_offset, pointer_size, base_address) ==
    LET cie_pointer == CASE d.cie = "last" -> (offset + HeaderLen(d)) - cie_offset
                         [] d.cie = "no such" -> (offset + HeaderLen(d)) - cie_offset - 1
                         [] OTHER -> offset + 20
        body == U32Bytes(cie_pointer)
                \o I32Bytes(d.begin - base_address - (offset + HeaderLen(d) + 4))
                \o PointerBytes(d.length, pointer_size) \o <<0, 0, 0>>
    IN  LengthBytes(d, body) \o body

\* the section written from a list of descriptions: its bytes and the offset of each
\* entry
RECURSIVE WriteEntries(_, _, _, _, _, _, _)
WriteEntries(descs, i, bytes, offsets, cie_offset, pointer_size, base_address) ==
    IF i > Len(descs) THEN [data |-> bytes, offsets |-> offsets]
    ELSE IF descs[i].type = "cie"
    THEN WriteEntries(descs, i + 1, bytes \o CieBytes(descs[i], pointer_size),
                      Append(offsets, Len(bytes)), Len(bytes), pointer_size, base_address)
    ELSE WriteEntries(descs, i + 1,
                      bytes \o FdeBytes(descs[i], Len(bytes), cie_offset, pointer_size,
                                        base_address),
                      Append(offsets, Len(bytes)), cie_offset, pointer_size, base_address)

\* what ends the section: nothing, a terminator, a terminator with an FDE behind it, two
\* stray bytes, a terminator written with an extended length, or nothing after a last
\* entry that has lost the last byte of its padding
Tails ==
    {"none", "terminator", "terminator and more", "partial", "extended terminator", "cut"}
TailBytes(tail, offset, pointer_size, base_address) ==
    CASE tail \in {"none", "cut"} -> <<>>
      [] tail = "terminator" -> <<0, 0, 0, 0>>
      [] tail = "terminator and more" ->
           <<0, 0, 0, 0>> \o FdeBytes(FdeDesc(260, 4, "last"), offset + 4, 0, pointer_size,
                                      base_address)
      [] tail = "partial" -> <<7, 0>>
      [] OTHER -> <<255, 255, 255, 255, 0, 0, 0, 0, 0, 0, 0, 0>>

\* lists of at most n of the later entries
RECURSIVE EntryLists(_)
EntryLists(n) ==
    IF n = 0 THEN {<<>>}
    ELSE EntryLists(n - 1)
         \cup {Append(l, e) : l \in {m \in EntryLists(n - 1) : Len(m) = n - 1},
                              e \in LaterEntries}

\* the reader and the build: load address of the section, whether the build checks
\* arithmetic overflow, and where the reader fails ("tail": where the length after the
\* last entry is read; "cie": in the first CIE)
Settings ==
    {[base_address |-> 0, overflow_checks |-> TRUE, fault |-> "none"],
     [base_address |-> 4096, overflow_checks |-> TRUE, fault |-> "none"],
     [base_address |-> 4096, overflow_checks |-> FALSE, fault |-> "none"],
     [base_address |-> 0, overflow_checks |-> TRUE, fault |-> "tail"],
     [base_address |-> 4096, overflow_checks |-> FALSE, fault |-> "cie"]}

\* the input of get_fdes for a first CIE, later entries, a tail, a pointer size and a
\* setting
EhFrame(cie, later, tail, pointer_size, setting) ==
    LET entries == <<cie>> \o later
        written == WriteEntries(entries, 1, <<>>, <<>>, 0, pointer_size, setting.base_address)
        tail_offset == Len(written.data)
    IN  [data |-> IF tail = "cut" THEN SubSeq(written.data, 1, tail_offset - 1)
                  ELSE written.data
                       \o TailBytes(tail, tail_offset, pointer_size, setting.base_address),
         fault |-> CASE setting.fault = "tail" -> tail_offset
                     [] setting.fault = "cie" -> 8
                     [] OTHER -> NoFault,
         pointer_size |-> pointer_size,
         base_address |-> setting.base_address,
         overflow_checks |-> setting.overflow_checks,
         entries |-> entries,
         offsets |-> written.offsets,
         tail |-> tail,
         tail_offset |-> tail_offset]

\* the sections get_fdes is run on (an absptr pc_begin is unsigned, so the section that
\* uses it is loaded below its functions)
EhFrames(max_entries, settings) ==
    {f \in {EhFrame(cie, later, tail, pointer_size, setting) :
                cie \in FirstCies, later \in EntryLists(max_entries), tail \in Tails,
                pointer_size \in {4, 8}, setting \in settings} :
        f.entries[1] = CieAbsptrPcrel => f.base_address = 0}

NoEhFrame ==
    [data |-> <<>>, fault |-> NoFault, pointer_size |-> 4, base_address |-> 0,
     overflow_checks |-> TRUE, entries |-> <<>>, offsets |-> <<>>, tail |-> "none",
     tail_offset |-> 0]

\* get_fdes before its first iteration, and before it is called
StartParser ==
    [status |-> "running", err |-> "", kind |-> "", pos |-> 0, cies |-> EmptyMap,
     fdes |-> <<>>]
IdleParser == [StartParser EXCEPT !.status = "idle"]

(***************************************************************************)
(* program.rs: Program::load. An object is its 64-bit flag, its sections   *)
(* in file order (name, address, size, uncompressed data) and the symbols  *)
(* of its symbol map in the order object::SymbolMap lists them, by         *)
(* ascending address.                                                      *)
(***************************************************************************)
\* a variant that stores the address one past the function's last byte
Function_new_past_end(address, content) ==
    [address |-> address + Len(content), content |-> content]

\* Function::new
Function_new(address, content) == [address |-> address, content |-> content]

\* a variant that slices from the start of the section
get_data_at_address_from_start(sections, i, address, size) ==
    LET covering == {j \in i..Len(sections) :
                        /\ sections[j].address <= address
                        /\ sections[j].address + sections[j].size > address}
    IN  IF covering = {} THEN [panic |-> FALSE, data |-> None]
        ELSE LET section == sections[CHOOSE j \in covering : \A k \in covering : j <= k]
             IN  IF size > Len(section.data) THEN [panic |-> TRUE, data |-> None]
                 ELSE [panic |-> FALSE, data |-> Some(SubSeq(section.data, 1, size))]

\* Program::get_data_at_address, the loop over object.sections() from the i-th section
\* on: the first section whose range holds the address gives the slice
\* [relative_address, relative_address + size) of its data; slicing past the end of the
\* data panics; no section gives None
RECURSIVE get_data_at_address(_, _, _, _)
get_data_at_address(sections, i, address, size) ==
    IF i > Len(sections) THEN [panic |-> FALSE, data |-> None]
    ELSE LET section == sections[i]
         IN  IF section.address > address \/ section.address + section.size <= address
             THEN get_data_at_address(sections, i + 1, address, size)
             ELSE LET relative_address == address - section.address
                  IN  IF relative_address + size > Len(section.data)
                      THEN [panic |-> TRUE, data |-> None]
                      ELSE [panic |-> FALSE,
                            data |-> Some(SubSeq(section.data, relative_address + 1,
                                                 relative_address + size))]

\* object.symbol_map().symbols().iter().map(|s| (s.address(), s.name())).collect(): of
\* several symbols at one address the last listed stays
RECURSIVE collect_symbol_map(_)
collect_symbol_map(symbols) ==
    IF symbols = <<>> THEN EmptyMap
    ELSE LET s == symbols[Len(symbols)]
             before == collect_symbol_map(SubSeq(symbols, 1, Len(symbols) - 1))
         IN  MapInsert(before, s.address, s.name)

\* a variant of the loop body that keeps the Function a name already has
load_fde_keep_first(functions, symbol_map, sections, fde) ==
    IF fde.begin \in DOMAIN symbol_map
    THEN LET data == get_data_at_address(sections, 1, fde.begin, fde.length)
         IN  IF data.panic \/ ~data.data.some THEN [panic |-> TRUE, functions |-> functions]
             ELSE IF symbol_map[fde.begin] \in DOMAIN functions
             THEN [panic |-> FALSE, functions |-> functions]
             ELSE [panic |-> FALSE,
                   functions |-> MapInsert(functions, symbol_map[fde.begin],
                                           Function_new(fde.begin, data.data.value))]
    ELSE [panic |-> FALSE, functions |-> functions]

\* the body of the loop of Program::load for one FDE: the functions after it, or a panic
\* when the unwrap of get_data_at_address or the slicing inside it panics
load_fde(functions, symbol_map, sections, fde) ==
    IF fde.begin \in DOMAIN symbol_map
    THEN LET name == symbol_map[fde.begin]
             data == get_data_at_address(sections, 1, fde.begin, fde.length)
         IN  IF data.panic \/ ~data.data.some THEN [panic |-> TRUE, functions |-> functions]
             ELSE [panic |-> FALSE,
                   functions |-> MapInsert(functions, name,
                                           Function_new(fde.begin, data.data.value))]
    ELSE [panic |-> FALSE, functions |-> functions]

(***************************************************************************)
(* Objects Program::load is run on.                                        *)
(***************************************************************************)
\* the sections before .eh_frame: code at 256..263 and at 272..275
TextSection == [name |-> ".text", address |-> 256, size |-> 8,
                data |-> <<85, 137, 229, 93, 195, 144, 49, 192>>]
StartupSection == [name |-> ".text.startup", address |-> 272, size |-> 4,
                   data |-> <<83, 91, 195, 204>>]
EhFrameAddress == 4096

\* the FDEs of an object: inside .text, inside .text.startup, past the end of .text, and
\* where no section lies
ObjectFdes ==
    {FdeDesc(256, 2, "last"), FdeDesc(260, 4, "last"), FdeDesc(272, 4, "last"),
     FdeDesc(260, 8, "last"), FdeDesc(264, 2, "last")}

RECURSIVE FdeLists(_)
FdeLists(n) ==
    IF n = 0 THEN {<<>>}
    ELSE FdeLists(n - 1)
         \cup {Append(l, e) : l \in {m \in FdeLists(n - 1) : Len(m) = n - 1}, e \in ObjectFdes}

\* the symbols of an object: two names at four addresses, listed by ascending address
ObjectSymbols == [address : {256, 260, 264, 272}, name : {<<"f">>, <<"g">>}]

RECURSIVE SymbolLists(_)
SymbolLists(n) ==
    IF n = 0 THEN {<<>>}
    ELSE SymbolLists(n - 1)
         \cup {Append(l, s) : l \in {m \in SymbolLists(n - 1) : Len(m) = n - 1},
                              s \in ObjectSymbols}

SortedByAddress(symbols) ==
    \A i \in 1..(Len(symbols) - 1) : symbols[i].address <= symbols[i + 1].address

\* an object whose .eh_frame holds one sdata4+pcrel CIE, the given FDEs and a terminator
Object(is_64, fdes, symbols) ==
    LET written == EhFrame(CieSdata4Pcrel, fdes, "terminator", IF is_64 THEN 8 ELSE 4,
                           [base_address |-> EhFrameAddress, overflow_checks |-> TRUE,
                            fault |-> "none"])
    IN  [is_64 |-> is_64,
         sections |-> <<TextSection, StartupSection,
                        [name |-> ".eh_frame", address |-> EhFrameAddress,
                         size |-> Len(written.data), data |-> written.data]>>,
         symbols |-> symbols,
         written |-> written]

\* 32-bit objects with any FDEs and symbols, and 64-bit objects without symbols
Objects ==
    {Object(FALSE, fdes, symbols) :
        fdes \in FdeLists(MaxEntries),
        symbols \in {l \in SymbolLists(MaxSymbols) : SortedByAddress(l)}}
    \cup {Object(TRUE, fdes, <<>>) : fdes \in FdeLists(MaxEntries)}

NoObject == [is_64 |-> FALSE, sections |-> <<>>, symbols |-> <<>>, written |-> NoEhFrame]

\* Program::load before it starts
StartLoading ==
    [stage |-> "start", pointer_size |-> 0, symbol_map |-> EmptyMap, functions |-> EmptyMap,
     next |-> 1]
IdleLoading == [StartLoading EXCEPT !.stage = "idle"]

(***************************************************************************)
(* split_diff.rs: build_split_diff. Indices of diff ops are 0-based, as in *)
(* similar::DiffOp; a row is a pair of cells.                              *)
(***************************************************************************)
MAX_SAME_BEFORE_COLLAPSE == 15

\* SplitDiffCell
Hidden == [kind |-> "Hidden", value |-> 0]
Collapsed == [kind |-> "Collapsed", value |-> 0]
Default(x) == [kind |-> "Default", value |-> x]
Insert(x) == [kind |-> "Insert", value |-> x]
Delete(x) == [kind |-> "Delete", value |-> x]

\* similar::DiffOp
Equal(old_index, new_index, len) ==
    [tag |-> "Equal", old_index |-> old_index, new_index |-> new_index, len |-> len]
DeleteOp(old_index, old_len, new_index) ==
    [tag |-> "Delete", old_index |-> old_index, old_len |-> old_len, new_index |-> new_index]
InsertOp(old_index, new_index, new_len) ==
    [tag |-> "Insert", old_index |-> old_index, new_index |-> new_index, new_len |-> new_len]
Replace(old_index, old_len, new_index, new_len) ==
    [tag |-> "Replace", old_index |-> old_index, old_len |-> old_len,
     new_index |-> new_index, new_len |-> new_len]

\* the lengths of the old and of the new range of an op (DiffOp::old_range, new_range)
OldLen(op) ==
    CASE op.tag = "Equal" -> op.len
      [] op.tag = "Insert" -> 0
      [] OTHER -> op.old_len
NewLen(op) ==
    CASE op.tag = "Equal" -> op.len
      [] op.tag = "Delete" -> 0
      [] OTHER -> op.new_len

\* v[from..to], 0-based and half-open
Slice(v, from, to) == SubSeq(v, from + 1, to)

\* a variant of drain that takes the range as closed: the item at `to` goes too
Drain_inclusive(v, from, to) == SubSeq(v, 1, from) \o SubSeq(v, to + 2, Len(v))

\* Vec::drain(from..to), 0-based and half-open
Drain(v, from, to) == SubSeq(v, 1, from) \o SubSeq(v, to + 1, Len(v))

\* a.iter().zip_longest(b.iter()): pairs while both last, then what is left of the longer
ZipLongest(a, b) ==
    [i \in 1..(IF Len(a) >= Len(b) THEN Len(a) ELSE Len(b)) |->
        IF i <= Len(a) /\ i <= Len(b) THEN [tag |-> "Both", left |-> a[i], right |-> b[i]]
        ELSE IF i <= Len(a) THEN [tag |-> "Left", left |-> a[i], right |-> a[i]]
        ELSE [tag |-> "Right", left |-> b[i], right |-> b[i]]]

\* the rows pushed for an Equal op from the i-th pair (0-based) of the zipped slices on
RECURSIVE EqualRows(_, _, _)
EqualRows(pairs, i, len) ==
    IF i >= Len(pairs) THEN <<>>
    ELSE LET pair == pairs[i + 1]
             collapsed == IF i = MAX_SAME_BEFORE_COLLAPSE /\ len >= MAX_SAME_BEFORE_COLLAPSE * 2
                          THEN <<<<Collapsed, Collapsed>>>> ELSE <<>>
             row == CASE pair.tag = "Both" -> <<Default(pair.left), Default(pair.right)>>
                      [] pair.tag = "Left" -> <<Default(pair.left), Hidden>>
                      [] OTHER -> <<Hidden, Default(pair.right)>>
         IN  collapsed \o <<row>> \o EqualRows(pairs, i + 1, len)

\* a variant of the Replace arm that zips the two ranges to the shorter one
ReplaceRows_both_only(pairs) ==
    LET both == SelectSeq(pairs, LAMBDA pair : pair.tag = "Both")
    IN  [i \in 1..Len(both) |-> <<Delete(both[i].left), Insert(both[i].right)>>]

\* the rows pushed for a Replace op
ReplaceRows(pairs) ==
    [i \in 1..Len(pairs) |->
        CASE pairs[i].tag = "Both" -> <<Delete(pairs[i].left), Insert(pairs[i].right)>>
          [] pairs[i].tag = "Left" -> <<Delete(pairs[i].left), Hidden>>
          [] OTHER -> <<Hidden, Insert(pairs[i].right)>>]

\* a variant of the Equal arm that collapses only runs longer than twice the limit
split_diff_equal_collapse_later(old, new, op) ==
    LET old_slice == Slice(old, op.old_index, op.old_index + op.len)
        new_slice == Slice(new, op.new_index, op.new_index + op.len)
        collapse == op.len > MAX_SAME_BEFORE_COLLAPSE * 2
        old_kept == IF collapse
                    THEN Drain(old_slice, MAX_SAME_BEFORE_COLLAPSE,
                               op.len - MAX_SAME_BEFORE_COLLAPSE)
                    ELSE old_slice
        new_kept == IF collapse
                    THEN Drain(new_slice, MAX_SAME_BEFORE_COLLAPSE,
                               op.len - MAX_SAME_BEFORE_COLLAPSE)
                    ELSE new_slice
    IN  EqualRows(ZipLongest(old_kept, new_kept), 0, IF collapse THEN op.len ELSE 0)

\* build_split_diff, the arm for DiffOp::Equal: the rows it pushes
split_diff_equal(old, new, op) ==
    LET old_slice == Slice(old, op.old_index, op.old_index + op.len)
        new_slice == Slice(new, op.new_index, op.new_index + op.len)
        collapse == op.len >= MAX_SAME_BEFORE_COLLAPSE * 2
        old_kept == IF collapse
                    THEN Drain(old_slice, MAX_SAME_BEFORE_COLLAPSE,
                               op.len - MAX_SAME_BEFORE_COLLAPSE)
                    ELSE old_slice
        new_kept == IF collapse
                    THEN Drain(new_slice, MAX_SAME_BEFORE_COLLAPSE,
                               op.len - MAX_SAME_BEFORE_COLLAPSE)
                    ELSE new_slice
    IN  EqualRows(ZipLongest(old_kept, new_kept), 0, op.len)

\* build_split_diff, the body of `for op in diff_ops`: the rows pushed for one op
split_diff_op(old, new, op) ==
    CASE op.tag = "Equal" -> split_diff_equal(old, new, op)
      [] op.tag = "Delete" ->
           LET items == Slice(old, op.old_index, op.old_index + op.old_len)
           IN  [i \in 1..Len(items) |-> <<Delete(items[i]), Hidden>>]
      [] op.tag = "Insert" ->
           LET items == Slice(new, op.new_index, op.new_index + op.new_len)
           IN  [i \in 1..Len(items) |-> <<Hidden, Insert(items[i])>>]
      [] OTHER ->
           ReplaceRows(ZipLongest(Slice(old, op.old_index, op.old_index + op.old_len),
                                  Slice(new, op.new_index, op.new_index + op.new_len)))

(***************************************************************************)
(* similar::capture_diff_slices(Algorithm::Myers, old, new), as called by  *)
(* build_split_diff_lines. Myers' algorithm yields a shortest edit script: *)
(* a path through the edit graph of old and new with the fewest deletions  *)
(* and insertions, whose diagonal steps are the pairs with new[j] ==       *)
(* old[i] (the library compares New::Output: PartialEq<Old::Output>).      *)
(* Which of several shortest scripts the library takes is left open. The   *)
(* steps are captured through the Replace hook, which joins equal steps to *)
(* one Equal op and the deletions and insertions between two equal runs to *)
(* one Delete, Insert or Replace op.                                       *)
(***************************************************************************)
\* the edit scripts from the i-th old and the j-th new item (1-based) on
RECURSIVE EditScripts(_, _, _, _)
EditScripts(old, new, i, j) ==
    IF i > Len(old) /\ j > Len(new) THEN {<<>>}
    ELSE (IF i <= Len(old) /\ j <= Len(new) /\ eq(new[j], old[i])
          THEN {<<"equal">> \o script : script \in EditScripts(old, new, i + 1, j + 1)}
          ELSE {})
         \cup (IF i <= Len(old)
               THEN {<<"delete">> \o script : script \in EditScripts(old, new, i + 1, j)}
               ELSE {})
         \cup (IF j <= Len(new)
               THEN {<<"insert">> \o script : script \in EditScripts(old, new, i, j + 1)}
               ELSE {})

\* the number of deletions and insertions of a script
EditDistance(script) == Cardinality({k \in 1..Len(script) : script[k] # "equal"})

\* the scripts Myers' algorithm can yield
ShortestEditScripts(old, new) ==
    With(EditScripts(old, new, 1, 1), LAMBDA scripts :
        {script \in scripts : \A other \in scripts :
                                  EditDistance(script) <= EditDistance(other)})

\* Replace::flush_del_ins: the op for the deletions and insertions between two equal runs
flush_del_ins(old_index, old_len, new_index, new_len) ==
    IF new_len = 0 THEN DeleteOp(old_index, old_len, new_index)
    ELSE IF old_len = 0 THEN InsertOp(old_index, new_index, new_len)
    ELSE Replace(old_index, old_len, new_index, new_len)

\* the Replace hook: the ops after one more step, taken at old_index and new_index
ReplaceHook(ops, step, old_index, new_index) ==
    IF ops # <<>> /\ step = "equal" /\ ops[Len(ops)].tag = "Equal"
    THEN [ops EXCEPT ![Len(ops)].len = @ + 1]
    ELSE IF step = "equal" THEN Append(ops, Equal(old_index, new_index, 1))
    ELSE IF ops = <<>> \/ ops[Len(ops)].tag = "Equal"
    THEN Append(ops, IF step = "delete" THEN DeleteOp(old_index, 1, new_index)
                     ELSE InsertOp(old_index, new_index, 1))
    ELSE With(ops[Len(ops)], LAMBDA last :
             [ops EXCEPT ![Len(ops)] =
                 flush_del_ins(last.old_index,
                               OldLen(last) + (IF step = "delete" THEN 1 ELSE 0),
                               last.new_index,
                               NewLen(last) + (IF step = "insert" THEN 1 ELSE 0))])

\* the ops captured for the steps of a script from the k-th on
RECURSIVE CaptureOps(_, _, _, _, _)
CaptureOps(script, k, old_index, new_index, ops) ==
    IF k > Len(script) THEN ops
    ELSE With(ReplaceHook(ops, script[k], old_index, new_index), LAMBDA captured :
             CaptureOps(script, k + 1,
                        old_index + (IF script[k] = "insert" THEN 0 ELSE 1),
                        new_index + (IF script[k] = "delete" THEN 0 ELSE 1), captured))

\* capture_diff_slices(Algorithm::Myers, old, new): the op lists it can return
capture_diff_slices(old, new) ==
    {CaptureOps(script, 1, 0, 0, <<>>) : script \in ShortestEditScripts(old, new)}

(***************************************************************************)
(* Inputs of build_split_diff.                                             *)
(***************************************************************************)
\* the old and the new items: as many as the longest Equal op needs and two more; an
\* item tells its side and its index
OldItems == [i \in 1..(MaxEqualLen + 2) |-> <<"old", i - 1>>]
NewItems == [i \in 1..(MaxEqualLen + 2) |-> <<"new", i - 1>>]

\* the lengths of Equal ops: short ones, the lengths around the limit, and those from
\* twice the limit to the longest
EqualLens ==
    {0, 1, MAX_SAME_BEFORE_COLLAPSE, MAX_SAME_BEFORE_COLLAPSE * 2 - 1}
    \cup (MAX_SAME_BEFORE_COLLAPSE * 2)..MaxEqualLen

\* diff ops inside the two slices
DiffOps ==
    {Equal(0, 0, len) : len \in EqualLens} \cup {Equal(1, 2, len) : len \in EqualLens}
    \cup {DeleteOp(i, len, 0) : i \in 0..1, len \in 1..2}
    \cup {InsertOp(0, i, len) : i \in 0..1, len \in 1..2}
    \cup {Replace(0, olen, 1, nlen) : olen \in 1..2, nlen \in 1..3}

RECURSIVE DiffOpLists(_)
DiffOpLists(n) ==
    IF n = 0 THEN {<<>>}
    ELSE DiffOpLists(n - 1)
         \cup {Append(l, op) : l \in {m \in DiffOpLists(n - 1) : Len(m) = n - 1}, op \in DiffOps}

\* the ends of the old and of the new range of the last op of a list
OldEnd(ops) == IF ops = <<>> THEN 0 ELSE ops[Len(ops)].old_index + OldLen(ops[Len(ops)])
NewEnd(ops) == IF ops = <<>> THEN 0 ELSE ops[Len(ops)].new_index + NewLen(ops[Len(ops)])

\* the ops that can follow ops that cover the first o old and the first n new items
NextOps(o, n) ==
    {Equal(o, n, len) : len \in EqualLens \ {0}}
    \cup {DeleteOp(o, len, n) : len \in 1..2}
    \cup {InsertOp(o, n, len) : len \in 1..2}
    \cup {Replace(o, olen, n, nlen) : olen \in 1..2, nlen \in 1..3}

\* the lists of at most n ops in which every op starts where the one before it ends
RECURSIVE CoveringOpLists(_)
CoveringOpLists(n) ==
    IF n = 0 THEN {<<>>}
    ELSE CoveringOpLists(n - 1)
         \cup UNION {{Append(l, op) : op \in NextOps(OldEnd(l), NewEnd(l))} :
                        l \in {m \in CoveringOpLists(n - 1) : Len(m) = n - 1}}

\* two instruction vectors of the lengths a list of ops covers, with the list
CoveredInput(ops) ==
    [old |-> [i \in 1..OldEnd(ops) |-> <<"old", i - 1>>],
     new |-> [i \in 1..NewEnd(ops) |-> <<"new", i - 1>>],
     diff_ops |-> ops]

NoDiffInput == [old |-> <<>>, new |-> <<>>, diff_ops |-> <<>>]
\* build_split_diff before its loop, and before it is called
StartSplit == [stage |-> "loop", next |-> 1, cells |-> <<>>, starts |-> <<>>]
IdleSplit == [StartSplit EXCEPT !.stage = "idle"]

(***************************************************************************)
(* bin/gui/main.rs: main. The file system is a set of file names: a file   *)
(* can be opened or not, and Program::load of an opened file returns or    *)
(* panics. The process ends with the status of a return from main or with  *)
(* that of a panic.                                                        *)
(***************************************************************************)
EXIT_SUCCESS == 0
EXIT_PANIC == 101

FileNames == {"primary.so", "secondary.so", "notes.txt", "missing.so"}
\* fs::File::open(filename) and Mmap::map succeed
CanOpen(filename) == filename # "missing.so"
\* Program::load of the mapped file returns
CanLoad(filename) == filename \in {"primary.so", "secondary.so"}

\* the line println!("Usage: {} <primary> <secondary>", args[0]) prints
UsageLine(args) == <<"Usage: ", args[1], " <primary> <secondary>">>

\* std::env::args(): the name of the program and at most n arguments
RECURSIVE ArgLists(_)
ArgLists(n) ==
    IF n = 0 THEN {<<"tfbindiff">>}
    ELSE ArgLists(n - 1)
         \cup {Append(args, filename) : args \in {a \in ArgLists(n - 1) : Len(a) = n},
                                        filename \in FileNames}

\* the process at the start of main, and before it is started
StartProcess(args) ==
    [stage |-> "main", args |-> args, stdout |-> <<>>, status |-> None, opened |-> <<>>,
     programs |-> <<>>]
IdleProcess == [StartProcess(<<>>) EXCEPT !.stage = "idle"]

(***************************************************************************)
(* output.rs: print_changes, the loop over the diff ops of one change. An  *)
(* instruction stands for its ip; indices are 0-based.                     *)
(***************************************************************************)
\* v[index] does not panic
IndexInRange(v, index) == index < Len(v)
\* v[from..to] does not panic
RangeInRange(v, from, to) == from <= to /\ to <= Len(v)

\* the lines "\t- {}" and "\t+ {}" for the formatted instructions of a range
FormattedLines(sign, v, from, to) == [i \in 1..(to - from) |-> <<sign, v[from + i]>>]

\* the body of `for op in res.diff_ops()`: the lines printed and whether an index was out
\* of range (a panic); nothing is printed for an Equal op
print_op(instructions1, instructions2, op) ==
    IF op.tag = "Equal" THEN [panic |-> FALSE, lines |-> <<>>]
    ELSE IF ~IndexInRange(instructions1, op.old_index)
            \/ ~IndexInRange(instructions2, op.new_index)
    THEN [panic |-> TRUE, lines |-> <<>>]
    ELSE With(<<<<IF op.tag = "Delete" THEN "deleted" ELSE "insert",
                  instructions1[op.old_index + 1], instructions2[op.new_index + 1]>>>>,
              LAMBDA header :
        IF op.tag # "Insert"
           /\ ~RangeInRange(instructions1, op.old_index, op.old_index + op.old_len)
        THEN [panic |-> TRUE, lines |-> header]
        ELSE With(IF op.tag = "Insert" THEN <<>>
                  ELSE FormattedLines("-", instructions1, op.old_index,
                                      op.old_index + op.old_len), LAMBDA minus :
        IF op.tag # "Delete"
           /\ ~RangeInRange(instructions2, op.new_index, op.new_index + op.new_len)
        THEN [panic |-> TRUE, lines |-> header \o minus]
        ELSE [panic |-> FALSE,
              lines |-> header \o minus
                        \o (IF op.tag = "Delete" THEN <<>>
                            ELSE FormattedLines("+", instructions2, op.new_index,
                                                op.new_index + op.new_len))
                        \o <<<<>>>>]))

\* print_changes before the loop over the ops of a change, and before it is called
StartPrint == [stage |-> "loop", next |-> 1, lines |-> <<>>]
IdlePrint == [StartPrint EXCEPT !.stage = "idle"]

(***************************************************************************)
(* Inputs of read_encoded: a reader that stands at a four-byte field, the  *)
(* encoding of the field, the pointer size and the base address.           *)
(***************************************************************************)
\* the four bytes of the field: 0, 1, 256, 2^31 - 1, 2^31 (the least i32), 2^32 - 1
\* (-1 as an i32) and -3840 as an i32
RawFields ==
    {<<0, 0, 0, 0>>, <<1, 0, 0, 0>>, <<0, 1, 0, 0>>, <<255, 255, 255, 127>>,
     <<0, 0, 0, 128>>, <<255, 255, 255, 255>>, <<0, 241, 255, 255>>}

\* the offsets of the field in the section
FieldOffsets == {0, 8, 20}

\* the base addresses of the section: 0, 4096, 2^32, 2^63 and 2^64 - 16
BaseAddresses ==
    {<<0, 0, 0, 0>>, <<4096, 0, 0, 0>>, <<0, 0, 1, 0>>, <<0, 0, 0, 32768>>,
     <<65520, 65535, 65535, 65535>>}

StartDecoding(raw, pos, format, application, pointer_size, base_address) ==
    [stage |-> "call", data |-> [i \in 1..pos |-> 0] \o raw, pos |-> pos, format |-> format,
     application |-> application, pointer_size |-> pointer_size,
     base_address |-> base_address, result |-> Panic(0)]

IdleDecoding ==
    [StartDecoding(<<>>, 0, DW_EH_PE_absptr, DW_EH_PE_pcrel, 4, <<0, 0, 0, 0>>)
        EXCEPT !.stage = "idle"]

(***************************************************************************)
(* Actions                                                                 *)
(***************************************************************************)
eqVars == <<insn_a, insn_b, insn_c, eqres>>
cmpVars == <<func1, func2, cmp>>
buildVars == <<unscanned, to_note, blocklist, static_init_map>>
loopVars == <<visited, changes, run, first>>
ehVars == <<eh_frame, parser>>
loadVars == <<object, loading>>
splitVars == <<diff_input, split>>
outVars == <<process, printed, decoding>>

\* a == b, b == a, b == c, a == c and a == a evaluated
EvalEq ==
    /\ ~eqres.done
    /\ eqres' = [done |-> TRUE, ab |-> eq(insn_a, insn_b), ba |-> eq(insn_b, insn_a),
                 bc |-> eq(insn_b, insn_c), ac |-> eq(insn_a, insn_c),
                 aa |-> eq(insn_a, insn_a)]
    /\ UNCHANGED <<insn_a, insn_b, insn_c, cmpVars, program1, program2, buildVars, pc, query,
                   matched, loopVars, ehVars, loadVars, splitVars, outVars>>

\* compare_functions(program1, program2, func1, func2)
CompareFunctions ==
    /\ cmp.kind = "None"
    /\ cmp' = compare_functions(func1, func2)
    /\ UNCHANGED <<eqVars, func1, func2, program1, program2, buildVars, pc, query, matched,
                   loopVars, ehVars, loadVars, splitVars, outVars>>

\* one iteration of the loop of build_static_init_map, over functions.keys() in the
\* order the hash map yields them
ScanKey ==
    /\ pc = "build"
    /\ \E name \in unscanned :
          /\ unscanned' = unscanned \ {name}
          /\ to_note' = scan_name(name, to_note, blocklist).static_initializers_to_note
          /\ blocklist' = scan_name(name, to_note, blocklist).static_initializer_blocklist
    /\ UNCHANGED <<eqVars, cmpVars, program1, program2, static_init_map, pc, query, matched,
                   loopVars, ehVars, loadVars, splitVars, outVars>>

\* build_static_init_map returns and FunctionMatcher::new stores the map
FinishBuild ==
    /\ pc = "build"
    /\ unscanned = {}
    /\ static_init_map' = to_note
    /\ pc' = "ready"
    /\ UNCHANGED <<eqVars, cmpVars, program1, program2, unscanned, to_note, blocklist, query,
                   matched, loopVars, ehVars, loadVars, splitVars, outVars>>

\* matcher.match_name(name)
MatchName ==
    /\ pc = "ready"
    /\ \E name \in MatchNames :
          /\ query' = name
          /\ matched' = match_name(name)
    /\ pc' = "matched"
    /\ UNCHANGED <<eqVars, cmpVars, program1, program2, buildVars, loopVars, ehVars, loadVars,
                   splitVars, outVars>>

\* FunctionMatcher::next_match for the primary function called name: the pair when
\* match_name finds a secondary function, Unmatched otherwise
next_match(name) ==
    LET func2_opt == match_name(name)
    IN  IF func2_opt.some
        THEN [kind |-> "Matched", func1 |-> program1.functions[name], func2 |-> func2_opt.value]
        ELSE [kind |-> "Unmatched"]

\* compare_programs, MatchResult::Matched: the pair is compared and a FunctionChange is
\* pushed when it differs; a panic of the comparison ends the run
LoopMatched ==
    /\ pc = "ready"
    /\ \E name \in DOMAIN program1.functions \ visited :
          LET m == next_match(name)
          IN  /\ m.kind = "Matched"
              /\ visited' = visited \cup {name}
              /\ changes' = PushIfDiffers(changes, m.func1, m.func2)
              /\ pc' = IF compare_functions(m.func1, m.func2).kind = "Panic"
                       THEN "panic" ELSE "ready"
    /\ UNCHANGED <<eqVars, cmpVars, program1, program2, buildVars, query, matched, run, first,
                   ehVars, loadVars, splitVars, outVars>>

\* compare_programs, MatchResult::Unmatched
LoopUnmatched ==
    /\ pc = "ready"
    /\ \E name \in DOMAIN program1.functions \ visited :
          /\ next_match(name).kind = "Unmatched"
          /\ visited' = visited \cup {name}
    /\ UNCHANGED <<eqVars, cmpVars, program1, program2, buildVars, pc, query, matched, changes,
                   run, first, ehVars, loadVars, splitVars, outVars>>

\* compare_programs, MatchResult::Finished: the list is sorted and returned
LoopFinished ==
    /\ pc = "ready"
    /\ visited = DOMAIN program1.functions
    /\ changes' = sort_by_address1(changes)
    /\ pc' = "done"
    /\ UNCHANGED <<eqVars, cmpVars, program1, program2, buildVars, query, matched, visited, run,
                   first, ehVars, loadVars, splitVars, outVars>>

\* the pipeline is run a second time on the same two Programs
Rerun ==
    /\ pc = "done"
    /\ run = 1
    /\ first' = changes
    /\ run' = 2
    /\ changes' = <<>>
    /\ visited' = {}
    /\ unscanned' = DOMAIN program2.functions
    /\ to_note' = EmptyMap
    /\ blocklist' = {}
    /\ static_init_map' = EmptyMap
    /\ pc' = "build"
    /\ UNCHANGED <<eqVars, cmpVars, program1, program2, query, matched, ehVars, loadVars,
                   splitVars, outVars>>

\* one iteration of the loop of get_fdes: the entry is parsed, a CIE is stored under its
\* offset, an FDE is pushed, None ends the loop with Ok(fdes), an error is returned and a
\* panic ends the process; parser.pos stays at the entry get_fdes stopped at
GetFdesStep ==
    /\ parser.status = "running"
    /\ \E entry \in {parse_eh_frame_entry(eh_frame, parser.pos, eh_frame.pointer_size,
                                          parser.cies, eh_frame.base_address,
                                          eh_frame.overflow_checks)} :
          parser' =
              IF entry.st # "Ok"
              THEN [parser EXCEPT !.status = entry.st, !.err = entry.err,
                                  !.kind = entry.kind]
              ELSE IF entry.val[1] = "None" THEN [parser EXCEPT !.status = "Ok"]
              ELSE IF entry.val[1] = "Cie"
              THEN [parser EXCEPT !.pos = entry.pos,
                                  !.cies = MapInsert(@, entry.val[2], entry.val[3])]
              ELSE [parser EXCEPT !.pos = entry.pos, !.fdes = Append(@, entry.val[2])]
    /\ UNCHANGED <<eqVars, cmpVars, program1, program2, buildVars, pc, query, matched, loopVars,
                   eh_frame, loadVars, splitVars, outVars>>

\* Program::load up to the call of get_fdes: the pointer size from the 64-bit flag, the
\* .eh_frame section by name, a Cursor over its data and its address as base
LoadBegin ==
    /\ loading.stage = "start"
    /\ LET pointer_size == IF object.is_64 THEN 8 ELSE 4
           eh_frame_section ==
               object.sections[CHOOSE i \in 1..Len(object.sections) :
                                   object.sections[i].name = ".eh_frame"]
       IN  /\ eh_frame' = [object.written EXCEPT !.data = eh_frame_section.data,
                                                 !.fault = NoFault,
                                                 !.pointer_size = pointer_size,
                                                 !.base_address = eh_frame_section.address]
           /\ loading' = [loading EXCEPT !.stage = "get_fdes", !.pointer_size = pointer_size]
    /\ parser' = StartParser
    /\ UNCHANGED <<eqVars, cmpVars, program1, program2, buildVars, pc, query, matched, loopVars,
                   object, splitVars, outVars>>

\* get_fdes(...).unwrap() on an error, or get_fdes panicked: Program::load panics
LoadGetFdesFailed ==
    /\ loading.stage = "get_fdes"
    /\ parser.status \in {"Err", "Panic"}
    /\ loading' = [loading EXCEPT !.stage = "panic"]
    /\ UNCHANGED <<eqVars, cmpVars, program1, program2, buildVars, pc, query, matched, loopVars,
                   object, ehVars, splitVars, outVars>>

\* get_fdes returned the FDEs: functions is created empty and symbol_map is collected
LoadSymbolMap ==
    /\ loading.stage = "get_fdes"
    /\ parser.status = "Ok"
    /\ loading' = [loading EXCEPT !.stage = "loop",
                                  !.symbol_map = collect_symbol_map(object.symbols)]
    /\ UNCHANGED <<eqVars, cmpVars, program1, program2, buildVars, pc, query, matched, loopVars,
                   object, ehVars, splitVars, outVars>>

\* one iteration of `for fde in fdes`
LoadFde ==
    /\ loading.stage = "loop"
    /\ loading.next <= Len(parser.fdes)
    /\ LET r == load_fde(loading.functions, loading.symbol_map, object.sections,
                         parser.fdes[loading.next])
       IN  loading' = IF r.panic THEN [loading EXCEPT !.stage = "panic"]
                      ELSE [loading EXCEPT !.functions = r.functions, !.next = @ + 1]
    /\ UNCHANGED <<eqVars, cmpVars, program1, program2, buildVars, pc, query, matched, loopVars,
                   object, ehVars, splitVars, outVars>>

\* the loop is over: the Program { pointer_size, functions, symbol_map } is returned
LoadReturn ==
    /\ loading.stage = "loop"
    /\ loading.next > Len(parser.fdes)
    /\ loading' = [loading EXCEPT !.stage = "done"]
    /\ UNCHANGED <<eqVars, cmpVars, program1, program2, buildVars, pc, query, matched, loopVars,
                   object, ehVars, splitVars, outVars>>

\* build_split_diff, one iteration of `for op in diff_ops`; starts keeps, for each op,
\* the number of rows pushed before it
SplitOp ==
    /\ split.stage = "loop"
    /\ split.next <= Len(diff_input.diff_ops)
    /\ split' = [split EXCEPT
                    !.next = @ + 1,
                    !.starts = Append(@, Len(split.cells)),
                    !.cells = @ \o split_diff_op(diff_input.old, diff_input.new,
                                                 diff_input.diff_ops[split.next])]
    /\ UNCHANGED <<eqVars, cmpVars, program1, program2, buildVars, pc, query, matched, loopVars,
                   diff_input, ehVars, loadVars, outVars>>

\* build_split_diff returns cells
SplitReturn ==
    /\ split.stage = "loop"
    /\ split.next > Len(diff_input.diff_ops)
    /\ split' = [split EXCEPT !.stage = "done"]
    /\ UNCHANGED <<eqVars, cmpVars, program1, program2, buildVars, pc, query, matched, loopVars,
                   diff_input, ehVars, loadVars, outVars>>

\* CachedFunctionChange::build_split_diff_lines, up to the call of build_split_diff: the
\* instruction vectors of the change and the diff ops captured for them
CaptureDiff ==
    /\ cmp.kind = "Differs"
    /\ split.stage = "idle"
    /\ \E diff_ops \in capture_diff_slices(cmp.instructions[1], cmp.instructions[2]) :
          diff_input' = [old |-> cmp.instructions[1], new |-> cmp.instructions[2],
                         diff_ops |-> diff_ops]
    /\ split' = StartSplit
    /\ UNCHANGED <<eqVars, cmpVars, program1, program2, buildVars, pc, query, matched, loopVars,
                   ehVars, loadVars, outVars>>

\* main with a number of arguments other than two: the usage line, and main returns
MainUsage ==
    /\ process.stage = "main"
    /\ Len(process.args) # 3
    /\ process' = [process EXCEPT !.stdout = Append(@, UsageLine(process.args)),
                                  !.stage = "exited", !.status = Some(EXIT_SUCCESS)]
    /\ UNCHANGED <<eqVars, cmpVars, program1, program2, buildVars, pc, query, matched,
                   loopVars, ehVars, loadVars, splitVars, printed, decoding>>

\* main: Program::load(&load_file(&args[1])), then the same for args[2]; the unwrap of a
\* failed open and a panic of the load end the process
MainLoad ==
    /\ process.stage = "main"
    /\ Len(process.args) = 3
    /\ Len(process.programs) < 2
    /\ \E filename \in {process.args[Len(process.programs) + 2]} :
          process' =
              IF ~CanOpen(filename)
              THEN [process EXCEPT !.stage = "exited", !.status = Some(EXIT_PANIC)]
              ELSE IF ~CanLoad(filename)
              THEN [process EXCEPT !.opened = Append(@, filename), !.stage = "exited",
                                   !.status = Some(EXIT_PANIC)]
              ELSE [process EXCEPT !.opened = Append(@, filename),
                                   !.programs = Append(@, filename)]
    /\ UNCHANGED <<eqVars, cmpVars, program1, program2, buildVars, pc, query, matched,
                   loopVars, ehVars, loadVars, splitVars, printed, decoding>>

\* main: compare_programs and app::run, whose unwrap panics when the window cannot be
\* opened; then main returns
MainRun ==
    /\ process.stage = "main"
    /\ Len(process.programs) = 2
    /\ \E run_native \in {"Ok", "Err"} :
          process' = [process EXCEPT
                         !.stage = "exited",
                         !.status = Some(IF run_native = "Ok" THEN EXIT_SUCCESS
                                         ELSE EXIT_PANIC)]
    /\ UNCHANGED <<eqVars, cmpVars, program1, program2, buildVars, pc, query, matched,
                   loopVars, ehVars, loadVars, splitVars, printed, decoding>>

\* print_changes: one turn of `for op in res.diff_ops()`
PrintOp ==
    /\ printed.stage = "loop"
    /\ printed.next <= Len(diff_input.diff_ops)
    /\ \E r \in {print_op(diff_input.old, diff_input.new, diff_input.diff_ops[printed.next])} :
          printed' = [printed EXCEPT !.stage = IF r.panic THEN "panic" ELSE @,
                                    !.next = @ + 1,
                                    !.lines = @ \o r.lines]
    /\ UNCHANGED <<eqVars, cmpVars, program1, program2, buildVars, pc, query, matched,
                   loopVars, ehVars, loadVars, splitVars, process, decoding>>

\* print_changes: the ops of the change are exhausted
PrintReturn ==
    /\ printed.stage = "loop"
    /\ printed.next > Len(diff_input.diff_ops)
    /\ printed' = [printed EXCEPT !.stage = "done"]
    /\ UNCHANGED <<eqVars, cmpVars, program1, program2, buildVars, pc, query, matched,
                   loopVars, ehVars, loadVars, splitVars, process, decoding>>

\* read_encoded on a reader that nothing interrupts
ReadEncoded ==
    /\ decoding.stage = "call"
    /\ decoding' =
          [decoding EXCEPT
              !.stage = "returned",
              !.result = read_encoded([data |-> decoding.data, fault |-> NoFault],
                                      decoding.pos, decoding.format, decoding.application,
                                      decoding.pointer_size, decoding.base_address)]
    /\ UNCHANGED <<eqVars, cmpVars, program1, program2, buildVars, pc, query, matched,
                   loopVars, ehVars, loadVars, splitVars, process, printed>>

(***************************************************************************)
(* Specifications                                                          *)
(***************************************************************************)
IdleEq == insn_a = NoInstr /\ insn_b = NoInstr /\ insn_c = NoInstr /\ eqres = NoEq
IdleCmp == func1 = EmptyFunction /\ func2 = EmptyFunction /\ cmp = NoCmp
IdleLoop == visited = {} /\ changes = <<>> /\ run = 1 /\ first = <<>>
IdleMatch == query = <<>> /\ matched = None
IdleEh == eh_frame = NoEhFrame /\ parser = IdleParser
IdleLoad == object = NoObject /\ loading = IdleLoading
IdleSplitDiff == diff_input = NoDiffInput /\ split = IdleSplit
IdleOut == process = IdleProcess /\ printed = IdlePrint /\ decoding = IdleDecoding
StartBuild ==
    /\ unscanned = DOMAIN program2.functions
    /\ to_note = EmptyMap
    /\ blocklist = {}
    /\ static_init_map = EmptyMap
    /\ pc = "build"

\* compare_programs(program1, program2) on any two Programs, run twice
Init ==
    /\ IdleEq /\ IdleCmp /\ IdleMatch /\ IdleLoop
    /\ program1 \in Programs
    /\ program2 \in SecondaryPrograms
    /\ StartBuild
    /\ IdleEh /\ IdleLoad /\ IdleSplitDiff /\ IdleOut

Next == ScanKey \/ FinishBuild \/ LoopMatched \/ LoopUnmatched \/ LoopFinished \/ Rerun

Spec == Init /\ [][Next]_vars

\* == on any three decoded instructions
InitEq ==
    /\ insn_a \in Instrs /\ insn_b \in Instrs /\ insn_c \in Instrs
    /\ eqres = NoEq
    /\ IdleCmp /\ IdleMatch /\ IdleLoop
    /\ program1 = EmptyProgram /\ program2 = EmptyProgram
    /\ StartBuild
    /\ IdleEh /\ IdleLoad /\ IdleSplitDiff /\ IdleOut

SpecEq == InitEq /\ [][EvalEq]_vars

\* compare_functions on any two function bodies
InitCmp ==
    /\ IdleEq /\ IdleMatch /\ IdleLoop
    /\ func1 \in {[address |-> 1, content |-> body] : body \in Contents}
    /\ func2 \in {[address |-> 1, content |-> body] : body \in Contents}
    /\ cmp = NoCmp
    /\ program1 = EmptyProgram /\ program2 = EmptyProgram
    /\ StartBuild
    /\ IdleEh /\ IdleLoad /\ IdleSplitDiff /\ IdleOut

SpecCmp == InitCmp /\ [][CompareFunctions]_vars

\* FunctionMatcher::new on any secondary Program, then match_name on any name
InitMatch ==
    /\ IdleEq /\ IdleCmp /\ IdleMatch /\ IdleLoop
    /\ program1 = EmptyProgram
    /\ program2 \in MatchPrograms
    /\ StartBuild
    /\ IdleEh /\ IdleLoad /\ IdleSplitDiff /\ IdleOut

NextMatch == ScanKey \/ FinishBuild \/ MatchName

SpecMatch == InitMatch /\ [][NextMatch]_vars

\* get_fdes on any of the sections
InitEh ==
    /\ IdleEq /\ IdleCmp /\ IdleMatch /\ IdleLoop
    /\ program1 = EmptyProgram /\ program2 = EmptyProgram
    /\ StartBuild
    /\ eh_frame \in EhFrames(MaxEntries, Settings)
    /\ parser = StartParser
    /\ IdleLoad /\ IdleSplitDiff /\ IdleOut

SpecEh == InitEh /\ [][GetFdesStep]_vars

\* get_fdes runs on: once called, its loop takes its next iteration; the sections are
\* those loaded at address 0 and read by a build that checks overflow
InitEhLive ==
    /\ IdleEq /\ IdleCmp /\ IdleMatch /\ IdleLoop
    /\ program1 = EmptyProgram /\ program2 = EmptyProgram
    /\ StartBuild
    /\ eh_frame \in EhFrames(MaxEntries, {setting \in Settings : /\ setting.base_address = 0
                                                                /\ setting.overflow_checks})
    /\ parser = StartParser
    /\ IdleLoad /\ IdleSplitDiff /\ IdleOut

SpecEhLive == InitEhLive /\ [][GetFdesStep]_vars /\ WF_vars(GetFdesStep)

\* Program::load on any of the objects
InitLoad ==
    /\ IdleEq /\ IdleCmp /\ IdleMatch /\ IdleLoop
    /\ program1 = EmptyProgram /\ program2 = EmptyProgram
    /\ StartBuild
    /\ IdleEh
    /\ object \in Objects
    /\ loading = StartLoading
    /\ IdleSplitDiff /\ IdleOut

NextLoad ==
    LoadBegin \/ GetFdesStep \/ LoadGetFdesFailed \/ LoadSymbolMap \/ LoadFde \/ LoadReturn

SpecLoad == InitLoad /\ [][NextLoad]_vars

\* build_split_diff on any list of diff ops
InitSplit ==
    /\ IdleEq /\ IdleCmp /\ IdleMatch /\ IdleLoop
    /\ program1 = EmptyProgram /\ program2 = EmptyProgram
    /\ StartBuild
    /\ IdleEh /\ IdleLoad
    /\ diff_input \in {[old |-> OldItems, new |-> NewItems, diff_ops |-> ops] :
                          ops \in DiffOpLists(MaxOps)}
                      \cup {CoveredInput(ops) : ops \in CoveringOpLists(MaxOps)}
    /\ split = StartSplit
    /\ IdleOut

NextSplit == SplitOp \/ SplitReturn

SpecSplit == InitSplit /\ [][NextSplit]_vars

\* the comparator and, on the instruction vectors of a Differs result, the diff and its
\* layout
InitDiff == InitCmp

NextDiff == CompareFunctions \/ CaptureDiff \/ SplitOp \/ SplitReturn

SpecDiff == InitDiff /\ [][NextDiff]_vars

\* main, started with every list of arguments
InitMain ==
    /\ IdleEq /\ IdleCmp /\ IdleMatch /\ IdleLoop
    /\ program1 = EmptyProgram /\ program2 = EmptyProgram
    /\ StartBuild
    /\ IdleEh /\ IdleLoad /\ IdleSplitDiff
    /\ process \in {StartProcess(args) : args \in ArgLists(MaxArgs)}
    /\ printed = IdlePrint
    /\ decoding = IdleDecoding

NextMain == MainUsage \/ MainLoad \/ MainRun

SpecMain == InitMain /\ [][NextMain]_vars

\* print_changes on a change whose diff ops cover its instruction vectors exactly
InitPrint ==
    /\ IdleEq /\ IdleCmp /\ IdleMatch /\ IdleLoop
    /\ program1 = EmptyProgram /\ program2 = EmptyProgram
    /\ StartBuild
    /\ IdleEh /\ IdleLoad
    /\ diff_input \in {CoveredInput(ops) : ops \in CoveringOpLists(MaxOps)}
    /\ split = IdleSplit
    /\ process = IdleProcess
    /\ printed = StartPrint
    /\ decoding = IdleDecoding

NextPrint == PrintOp \/ PrintReturn

SpecPrint == InitPrint /\ [][NextPrint]_vars

\* read_encoded on every field, encoding, pointer size and base address of the inputs
InitEnc ==
    /\ IdleEq /\ IdleCmp /\ IdleMatch /\ IdleLoop
    /\ program1 = EmptyProgram /\ program2 = EmptyProgram
    /\ StartBuild
    /\ IdleEh /\ IdleLoad /\ IdleSplitDiff
    /\ process = IdleProcess
    /\ printed = IdlePrint
    /\ decoding \in {StartDecoding(raw, pos, format, application, pointer_size, base) :
                        raw \in RawFields, pos \in FieldOffsets,
                        format \in {DW_EH_PE_absptr, DW_EH_PE_sdata4},
                        application \in {DW_EH_PE_absptr, DW_EH_PE_pcrel},
                        pointer_size \in {4, 8}, base \in BaseAddresses}

NextEnc == ReadEncoded

SpecEnc == InitEnc /\ [][NextEnc]_vars

(***************************************************************************)
I1 == create_instruction_iter(func1)
I2 == create_instruction_iter(func2)
Returned == cmp.kind \in {"Same", "Differs"}

\* the two streams have the same length and agree, position by position, under ==
\* as well as under the structural equivalence of section 4.3
StreamsUnequal ==
    \/ Len(I1) # Len(I2)
    \/ \E i \in 1..Len(I1) : ~eq(I1[i], I2[i]) /\ ~StructurallyEqual(I1[i], I2[i])

\* C1: whenever the decoded streams have different instruction counts or are
\* structurally unequal at any position, a comparison that returns returns Differs.
C1_DiffersWheneverStreamsUnequal ==
    (Returned /\ StreamsUnequal) => cmp.kind = "Differs"

\* C2: a pair with byte-identical content compares Same and no instruction of either
\* function is decoded.
C2_ByteEqualSameWithoutDecoding ==
    (cmp.kind # "None" /\ func1.content = func2.content)
        => (cmp.kind = "Same" /\ cmp.decodes = 0)

\* C3: comparing byte-identical content never reaches the unhandled-operand failure of
\* the stack-depth probe.
C3_ByteEqualNeverPanics ==
    func1.content = func2.content => cmp.kind # "Panic"

\* SUB ESP, imm with an 8-bit sign-extended or a 32-bit immediate
IsSubEspImm(instr) ==
    /\ Mnemonic(instr.code) = "Sub"
    /\ instr.op_kinds[1] = "Register"
    /\ instr.op_registers[1] = "ESP"
    /\ instr.op_kinds[2] \in {"Immediate8to32", "Immediate32"}

\* SUB with destination ESP and a register or memory operand 1
IsSubEspNonImm(instr) ==
    /\ Mnemonic(instr.code) = "Sub"
    /\ instr.op_kinds[1] = "Register"
    /\ instr.op_registers[1] = "ESP"
    /\ instr.op_kinds[2] \notin {"Immediate8to32", "Immediate32"}

\* the positions where both instructions are SUB ESP, imm
SubEspImmPairs ==
    {i \in 1..Len(I1) : i <= Len(I2) /\ IsSubEspImm(I1[i]) /\ IsSubEspImm(I2[i])}
FirstSubEspImmPair == CHOOSE i \in SubEspImmPairs : \A j \in SubEspImmPairs : i <= j

\* the streams agree up to and at the first SUB ESP, imm pair, whose immediates differ
FrameSizeChanged ==
    /\ SubEspImmPairs # {}
    /\ \A i \in 1..FirstSubEspImmPair : StructurallyEqual(I1[i], I2[i])
    /\ I1[FirstSubEspImmPair].immediate # I2[FirstSubEspImmPair].immediate

\* a pair of SUBs with destination ESP and no immediate stands before that pair
SubEspNonImmBefore ==
    \E q \in 1..(FirstSubEspImmPair - 1) : IsSubEspNonImm(I1[q]) /\ IsSubEspNonImm(I2[q])

\* C4 as claimed: streams structurally equal up to and at the first SUB ESP, imm pair,
\* whose immediates differ, compare Differs.
C4_FrameSizeChangeDiffers ==
    (cmp.kind # "None" /\ FrameSizeChanged) => cmp.kind = "Differs"

\* C4 as amended: the same, provided no earlier position holds on both sides a SUB with
\* destination ESP whose operand 1 is not an immediate (there the probe stops with the
\* unhandled-operand failure).
C4_FrameSizeChangeDiffersUnlessUnhandled ==
    (cmp.kind # "None" /\ FrameSizeChanged /\ ~SubEspNonImmBefore) => cmp.kind = "Differs"

\* a frame-size change was compared Differs although every pair is structurally equal
C4_Witness ==
    /\ cmp.kind = "Differs"
    /\ FrameSizeChanged
    /\ ~SubEspNonImmBefore
    /\ Len(I1) = Len(I2)
    /\ Len(I1) > FirstSubEspImmPair
    /\ \A i \in 1..Len(I1) : StructurallyEqual(I1[i], I2[i])

(***************************************************************************)
(* Properties of compare_programs (under Spec)                             *)
(***************************************************************************)
\* C5: comparing a Program with itself completes and yields an empty change list.
C5_SelfComparisonEmpty ==
    program1 = program2 => (pc # "panic" /\ (pc = "done" => changes = <<>>))

\* the primary functions that are matched and compare Differs
DiffersNames ==
    {n \in DOMAIN program1.functions :
        /\ match_name(n).some
        /\ compare_functions(program1.functions[n], match_name(n).value).kind = "Differs"}

\* C6: the returned list holds exactly one FunctionChange per primary function that was
\* matched and compared Differs, in ascending order of address1, no address1 twice.
C6_OnePerChangedFunctionSorted ==
    pc = "done" =>
        /\ \A i \in 1..(Len(changes) - 1) : changes[i].address1 < changes[i + 1].address1
        /\ Len(changes) = Cardinality(DiffersNames)
        /\ \A n \in DiffersNames : \E i \in 1..Len(changes) :
              /\ changes[i].name = n
              /\ changes[i].address1 = program1.functions[n].address
              /\ changes[i].address2 = match_name(n).value.address

\* two changes were pushed and returned
C6_Witness == pc = "done" /\ Len(changes) >= 2

\* C7: the second run of the pipeline on the same two Programs returns the list the
\* first run returned, whatever the order in which either run scans the secondary's
\* names and visits the primary's functions.
C7_SecondRunReturnsSameList ==
    (pc = "done" /\ run = 2) => changes = first

\* a second run returned two changes
C7_Witness == pc = "done" /\ run = 2 /\ Len(changes) >= 2 /\ first = changes

(***************************************************************************)
(* Properties of InstructionWrapper equality (under SpecEq)                *)
(***************************************************************************)
\* C8: a == b holds if and only if the opcodes are identical, the ordered operand kinds
\* are identical and the registers at register operands are identical.
C8_EqIsStructuralEquivalence ==
    eqres.done => (eqres.ab <=> StructurallyEqual(insn_a, insn_b))

\* C9: == is reflexive, symmetric and transitive.
C9_EqIsEquivalenceRelation ==
    eqres.done =>
        /\ eqres.aa
        /\ eqres.ab => eqres.ba
        /\ (eqres.ab /\ eqres.bc) => eqres.ac

(***************************************************************************)
(* Properties of FunctionMatcher::match_name (under SpecMatch)             *)
(***************************************************************************)
\* the ways a name splits as _?_GLOBAL__sub_I_ <filename> .stdout.rel_tf_osx_builder.
\* <anything> .ii : the length of the prefix and the place of the builder piece
PatternSplits(name) ==
    {s \in (1..2) \X (1..Len(name)) :
        /\ s[1] < s[2] /\ s[2] < Len(name)
        /\ SubSeq(name, 1, s[1]) \in {<<GlobalSubI>>, <<"_", GlobalSubI>>}
        /\ name[s[2]] = StdoutBuilder
        /\ name[Len(name)] = DotIi}
IsStaticInitializerName(name) == PatternSplits(name) # {}
CapturedFilename(name) ==
    LET s == CHOOSE t \in PatternSplits(name) : \A u \in PatternSplits(name) : u[2] <= t[2]
    IN  SubSeq(name, s[1] + 1, s[2] - 1)

\* C10: match_name returns the secondary function stored under the name when the name
\* is a key; otherwise, for a static-initializer name whose filename is a key of the
\* static-init map, the function stored under the mapped name; otherwise None.
C10_MatchNameResult ==
    pc = "matched" =>
        LET keys == DOMAIN program2.functions
        IN  IF query \in keys
            THEN matched = Some(program2.functions[query])
            ELSE IF IsStaticInitializerName(query)
                    /\ CapturedFilename(query) \in DOMAIN static_init_map
            THEN matched = Some(program2.functions[static_init_map[CapturedFilename(query)]])
            ELSE matched = None

\* a static-initializer name that is no key was matched through the static-init map
C10_Witness ==
    /\ pc = "matched"
    /\ query \notin DOMAIN program2.functions
    /\ matched.some

(***************************************************************************)
(* Properties of build_static_init_map (under SpecMatch)                   *)
(***************************************************************************)
\* the names of the secondary that are static-initializer names with filename f
KeysWithFilename(f) ==
    {n \in DOMAIN program2.functions : IsStaticInitializerName(n) /\ CapturedFilename(n) = f}

\* build_static_init_map has returned
Built == pc \in {"ready", "matched"}

\* match_name was asked for a static-initializer name with filename f that is no key of
\* the secondary, so the answer came through the fallback path
FallbackQuery(f) ==
    /\ pc = "matched"
    /\ query \notin DOMAIN program2.functions
    /\ IsStaticInitializerName(query)
    /\ CapturedFilename(query) = f

\* C11: when two or more names of the secondary are static-initializer names with the
\* same filename, the filename is no key of the static-init map, in whatever order the
\* names were scanned, and the fallback path of match_name resolves no name with that
\* filename.
C11_CollidingFilenameUnmapped ==
    Built =>
        \A n \in DOMAIN program2.functions :
            (IsStaticInitializerName(n)
             /\ Cardinality(KeysWithFilename(CapturedFilename(n))) >= 2)
                => /\ CapturedFilename(n) \notin DOMAIN static_init_map
                   /\ FallbackQuery(CapturedFilename(n)) => matched = None

\* three names of the secondary share the filename foo and a fourth name with that
\* filename was asked for and not resolved
C11_Witness ==
    /\ Cardinality(KeysWithFilename(<<"foo">>)) >= 3
    /\ FallbackQuery(<<"foo">>)
    /\ matched = None

\* C12: when exactly one name n of the secondary is a static-initializer name with
\* filename f, the static-init map holds f -> n and match_name of a static-initializer
\* name with filename f that is no key of the secondary returns the function stored
\* under n; every value of the map is a key of the secondary's functions.
C12_UniqueFilenameMapped ==
    Built =>
        /\ \A n \in DOMAIN program2.functions :
              (IsStaticInitializerName(n) /\ KeysWithFilename(CapturedFilename(n)) = {n})
                  => /\ MapGet(static_init_map, CapturedFilename(n)) = Some(n)
                     /\ FallbackQuery(CapturedFilename(n))
                            => matched = Some(program2.functions[n])
        /\ \A f \in DOMAIN static_init_map : static_init_map[f] \in DOMAIN program2.functions

\* the primary's ...A.ii was resolved to the secondary's ...B.ii, the only name of the
\* secondary with filename foo, beside an unrelated static initializer
C12_Witness ==
    /\ KeysWithFilename(<<"foo">>) = {NameFooB}
    /\ KeysWithFilename(<<"bar">>) = {NameBarA}
    /\ query = NameFooA
    /\ FallbackQuery(<<"foo">>)
    /\ matched = Some(program2.functions[NameFooB])

(***************************************************************************)
(* Properties of get_fdes (under SpecEh)                                   *)
(***************************************************************************)
\* get_fdes has returned or panicked
Stopped == parser.status # "running"

\* the FDEs written into the section before offset p, in section order
FdesWrittenBefore(p) ==
    LET entries == [i \in 1..Len(eh_frame.entries) |->
                       [d |-> eh_frame.entries[i], offset |-> eh_frame.offsets[i]]]
        fdes == SelectSeq(entries, LAMBDA e : e.d.type = "fde" /\ e.offset < p)
    IN  [i \in 1..Len(fdes) |-> [begin |-> fdes[i].d.begin, length |-> fdes[i].d.length]]

\* what stands at offset p, where an entry's length is read: the end of the stream, a
\* length of 0 (in four bytes or extended), or the reader's fault
StreamEndsAt(p) == p >= Len(eh_frame.data)
FaultAtLength(p) == eh_frame.fault \in p..(p + 3) /\ eh_frame.fault < Len(eh_frame.data)
ZeroLengthAt(p) ==
    /\ ~FaultAtLength(p)
    /\ \/ /\ p + 4 <= Len(eh_frame.data)
          /\ SubSeq(eh_frame.data, p + 1, p + 4) = <<0, 0, 0, 0>>
       \/ /\ p + 12 <= Len(eh_frame.data)
          /\ SubSeq(eh_frame.data, p + 1, p + 12)
                = <<255, 255, 255, 255, 0, 0, 0, 0, 0, 0, 0, 0>>

\* C13: where get_fdes reads a length of 0 or finds the stream ended, it returns Ok with
\* exactly the FDEs of the FDE entries before that place, in section order; where the
\* read of the length fails otherwise, it returns that error.
C13_EndsAtTerminatorOrEndOfStream ==
    Stopped =>
        /\ (StreamEndsAt(parser.pos) \/ ZeroLengthAt(parser.pos))
              => (parser.status = "Ok" /\ parser.fdes = FdesWrittenBefore(parser.pos))
        /\ FaultAtLength(parser.pos)
              => (parser.status = "Err" /\ parser.err = "Io" /\ parser.kind = "Other")

\* two FDEs with a CIE before them were returned at a terminator that has an entry
\* behind it
C13_Witness ==
    /\ parser.status = "Ok"
    /\ eh_frame.tail = "terminator and more"
    /\ parser.fdes = <<[begin |-> 256, length |-> 2], [begin |-> 260, length |-> 4]>>

\* a CIE whose version is not 1 or whose augmentation string holds a character outside
\* z, e, h, L, P, R
MalformedCie(d) ==
    /\ d.type = "cie"
    /\ \/ d.version # 1
       \/ \E i \in 1..Len(d.augmentation) :
             d.augmentation[i] \notin {CharZ, CharE, CharH, CharL, CharP, CharR}

\* C14: a section whose first CIE is malformed makes get_fdes return an error value.
C14_MalformedCieIsTypedError ==
    (Stopped /\ eh_frame.fault = NoFault /\ MalformedCie(eh_frame.entries[1]))
        => parser.status = "Err"

\* a CIE whose 'R' byte names a pointer format and application other than absptr with
\* 4-byte pointers or sdata4, combined with pcrel
UnsupportedPair(d, pointer_size) ==
    /\ d.type = "cie"
    /\ d.version = 1
    /\ d.augmentation = <<CharZ, CharR>>
    /\ LET format == d.data[1] % 16
           application == d.data[1] - (d.data[1] % 16)
       IN  /\ format \in EhPointerFormat
           /\ application \in EhPointerApplication
           /\ ~(/\ application = DW_EH_PE_pcrel
                /\ \/ format = DW_EH_PE_sdata4
                   \/ format = DW_EH_PE_absptr /\ pointer_size = 4)

\* C15: an FDE under a CIE with an unsupported pointer format and application makes
\* get_fdes return an error value, and no FDE is produced from it.
C15_UnsupportedEncodingIsTypedError ==
    (/\ Stopped
     /\ eh_frame.fault = NoFault
     /\ UnsupportedPair(eh_frame.entries[1], eh_frame.pointer_size)
     /\ Len(eh_frame.entries) >= 2
     /\ eh_frame.entries[2].type = "fde"
     /\ eh_frame.entries[2].cie = "last")
        => (parser.status = "Err" /\ parser.fdes = <<>>)

\* a section of sdata4+pcrel CIEs (one of them with "eh") and their FDEs, ended by
\* nothing or by a terminator, read without a fault
WellFormedSdata4Section ==
    /\ eh_frame.fault = NoFault
    /\ eh_frame.entries[1] \in {CieSdata4Pcrel, CieEh}
    /\ \A i \in 2..Len(eh_frame.entries) :
          \/ eh_frame.entries[i] = CieSdata4Pcrel
          \/ /\ eh_frame.entries[i].type = "fde"
             /\ eh_frame.entries[i].cie = "last"
             /\ eh_frame.entries[i].form # "short"
    /\ eh_frame.tail \in {"none", "terminator"}

\* C16: with pointer size 8 such a section is parsed and its FDEs are returned, pc_range
\* being read as an 8-byte value and the EH data as 8 bytes.
C16_PointerSize8Supported ==
    (Stopped /\ eh_frame.pointer_size = 8 /\ WellFormedSdata4Section)
        => (parser.status = "Ok" /\ parser.fdes = FdesWrittenBefore(eh_frame.tail_offset))

\* the entries of the section that are FDEs, by their place in eh_frame.entries
FdeEntries == {k \in 1..Len(eh_frame.entries) : eh_frame.entries[k].type = "fde"}

\* the discriminator v of the k-th entry as written, and the stream position p after it
PositionAfterDiscriminator(k) == eh_frame.offsets[k] + HeaderLen(eh_frame.entries[k]) + 4
DiscriminatorOf(k) ==
    U32LE(SubSeq(eh_frame.data, PositionAfterDiscriminator(k) - 3,
                 PositionAfterDiscriminator(k)))

\* the CIEs written before the k-th entry at the offset p - 4 - v of the k-th entry
CiesAtPointerOf(k) ==
    {i \in 1..(k - 1) :
        /\ eh_frame.entries[i].type = "cie"
        /\ eh_frame.offsets[i] = PositionAfterDiscriminator(k) - 4 - DiscriminatorOf(k)}

\* a CIE that carries the 'R' pointer format and application
CarriesR(d) ==
    /\ \E i \in 1..Len(d.augmentation) : d.augmentation[i] = CharZ
    /\ \E i \in 1..Len(d.augmentation) : d.augmentation[i] = CharR

\* C25: an FDE entry with discriminator v and position p after the discriminator resolves
\* to the CIE recorded at offset p - 4 - v, the offset of that CIE's length field; if no
\* CIE was recorded at that offset (also when v > p - 4), or the CIE carries no 'R'
\* pointer format or application, get_fdes returns an InvalidCie error and produces no
\* FDE for that entry.
C25_FdeResolvesItsCie ==
    \A k \in FdeEntries :
        /\ parser.pos > eh_frame.offsets[k]
              => \E i \in CiesAtPointerOf(k) :
                    /\ CarriesR(eh_frame.entries[i])
                    /\ eh_frame.offsets[i] \in DOMAIN parser.cies
                    /\ parser.cies[eh_frame.offsets[i]].fde_pointer_format.some
                    /\ parser.cies[eh_frame.offsets[i]].fde_pointer_application.some
        /\ (/\ Stopped
            /\ parser.pos = eh_frame.offsets[k]
            /\ eh_frame.fault = NoFault
            /\ \A i \in CiesAtPointerOf(k) : ~CarriesR(eh_frame.entries[i]))
              => /\ parser.status = "Err"
                 /\ parser.err = "InvalidCie"
                 /\ parser.fdes = FdesWrittenBefore(eh_frame.offsets[k])

\* the length field that stands at offset p: whether it is 0xFFFFFFFF, the position
\* after it (after the extended length, if there is one), and the length it declares
ExtendedLengthAt(p) == SubSeq(eh_frame.data, p + 1, p + 4) = <<255, 255, 255, 255>>
EntryStartAt(p) == IF ExtendedLengthAt(p) THEN p + 12 ELSE p + 4
DeclaredLengthAt(p) ==
    IF ExtendedLengthAt(p) THEN U64LE(SubSeq(eh_frame.data, p + 5, p + 12))
    ELSE U32LE(SubSeq(eh_frame.data, p + 1, p + 4))

\* the entries whose length field declares fewer bytes than the parser of the entry reads
OverConsumedEntries ==
    {k \in 1..Len(eh_frame.entries) : eh_frame.entries[k].form = "short"}

\* get_fdes has not gone past the k-th entry and holds nothing from it; when it stopped
\* there, it did not return Ok
RejectedAt(k) ==
    /\ parser.pos <= eh_frame.offsets[k]
    /\ eh_frame.offsets[k] \notin DOMAIN parser.cies
    /\ parser.fdes = FdesWrittenBefore(parser.pos)
    /\ (Stopped /\ parser.pos = eh_frame.offsets[k]) => parser.status # "Ok"

\* C27: an iteration of get_fdes that parses an entry leaves the stream at entry_start +
\* length, entry_start being the position after the length field (after the extended
\* length behind a length of 0xFFFFFFFF) and length the declared length; an entry whose
\* parser reads more bytes than the declared length is rejected, and neither an FDE nor
\* a recorded CIE comes from it.
C27_EntryEndsAtDeclaredLength ==
    [][/\ (parser.status = "running" /\ parser'.status = "running")
            => parser'.pos = EntryStartAt(parser.pos) + DeclaredLengthAt(parser.pos)
       /\ \A k \in OverConsumedEntries : RejectedAt(k)']_vars

\* an FDE behind an extended length was parsed and its padding skipped, in a section
\* that also holds an entry that declares too short a length
C27_Witness ==
    /\ Len(eh_frame.entries) = 3
    /\ eh_frame.entries[2].form = "extended"
    /\ eh_frame.entries[3].form = "short"
    /\ parser.pos = eh_frame.offsets[2] + 12 + 15
    /\ parser.pos = eh_frame.offsets[3]
    /\ parser.fdes = <<[begin |-> 264, length |-> 2]>>
    /\ parser.status = "Panic"

\* the entries whose declared length reaches past the end of the section's data
TruncatedEntries ==
    {k \in 1..Len(eh_frame.entries) :
        EntryStartAt(eh_frame.offsets[k]) + DeclaredLengthAt(eh_frame.offsets[k])
            > Len(eh_frame.data)}

\* C28: on a section with an entry whose declared length reaches past the end of the
\* data, get_fdes does not return Ok.
C28_TruncatedEntryIsAnError ==
    (Stopped /\ TruncatedEntries # {}) => parser.status # "Ok"

\* C29: get_fdes terminates: an iteration of its loop that does not end the parse moves
\* the stream forward by at least 4 + the declared length of the entry, and the loop
\* comes to an end.
C29_GetFdesTerminates ==
    /\ [][(parser.status = "running" /\ parser'.status = "running")
             => /\ parser'.pos > parser.pos
                /\ parser'.pos >= parser.pos + 4 + DeclaredLengthAt(parser.pos)]_vars
    /\ <>Stopped

\* get_fdes returned after three iterations that went on, each from a later entry
C29_Witness ==
    /\ parser.status = "Ok"
    /\ Len(eh_frame.entries) = 3
    /\ eh_frame.tail = "terminator"
    /\ parser.pos = eh_frame.tail_offset
    /\ DOMAIN parser.cies = {eh_frame.offsets[1]}
    /\ Len(parser.fdes) = 2

(***************************************************************************)
(* Properties of read_encoded (under SpecEnc)                              *)
(***************************************************************************)
\* the eight bytes of a u64, least significant first
Bytes64(x) ==
    <<x[1] % 256, x[1] \div 256, x[2] % 256, x[2] \div 256,
      x[3] % 256, x[3] \div 256, x[4] % 256, x[4] \div 256>>

\* the bytes from the i-th on of (a + b) mod 2^64, of two numbers given by their bytes
RECURSIVE SumMod64(_, _, _, _)
SumMod64(a, b, i, carry) ==
    IF i > 8 THEN <<>>
    ELSE <<(a[i] + b[i] + carry) % 256>> \o SumMod64(a, b, i + 1, (a[i] + b[i] + carry) \div 256)

RawField == SubSeq(decoding.data, decoding.pos + 1, decoding.pos + 4)
RawIsNegative == decoding.format = DW_EH_PE_sdata4 /\ RawField[4] >= 128

\* the raw value as a 64-bit number: an sdata4 sign-extended, an absptr zero-extended
RawValue64 ==
    RawField \o (IF RawIsNegative THEN <<255, 255, 255, 255>> ELSE <<0, 0, 0, 0>>)

\* (base address + offset of the raw value + raw value) mod 2^64
PcrelValue64 ==
    SumMod64(SumMod64(Bytes64(decoding.base_address), Bytes64(U64(decoding.pos)), 1, 0),
             RawValue64, 1, 0)

\* read_encoded has returned from a pcrel field in sdata4 or in four-byte absptr
DecodedPcrel ==
    /\ decoding.stage = "returned"
    /\ decoding.application = DW_EH_PE_pcrel
    /\ decoding.format = DW_EH_PE_sdata4 \/ decoding.pointer_size = 4

\* the address of the field, when it is below 2^31
FieldAddressIsSmall ==
    /\ decoding.base_address[3] = 0 /\ decoding.base_address[4] = 0
    /\ decoding.base_address[2] < 16384
FieldAddress == AsInteger(decoding.base_address) + decoding.pos

\* C26: a pcrel value decodes to (base address + offset of the raw value + raw value)
\* mod 2^64, an sdata4 raw value sign-extended and a four-byte absptr one zero-extended;
\* the decoding never fails on overflow, and a negative raw value that does not reach
\* below address 0 yields an address below the field's own
C26_PcrelDecoding ==
    DecodedPcrel =>
        /\ decoding.result.st = "Ok"
        /\ decoding.result.pos = decoding.pos + 4
        /\ Bytes64(decoding.result.val) = PcrelValue64
        /\ (RawIsNegative /\ FieldAddressIsSmall /\ FieldAddress + I32LE(RawField) >= 0) =>
               /\ AsInteger(decoding.result.val) = FieldAddress + I32LE(RawField)
               /\ AsInteger(decoding.result.val) < FieldAddress

\* a negative sdata4 value was decoded to an address below the field's, the addition
\* having wrapped
C26_Witness ==
    /\ DecodedPcrel
    /\ RawIsNegative /\ FieldAddressIsSmall
    /\ decoding.result.st = "Ok"
    /\ AsInteger(decoding.result.val) = 4096 + 8 - 3840

(***************************************************************************)
(* Properties of Program::load (under SpecLoad)                            *)
(***************************************************************************)
\* Program::load has returned the Program
Loaded == loading.stage = "done"

\* C17: in the Program that Program::load returns, for every entry (name, f) of
\* functions, f.address is a key of symbol_map and symbol_map[f.address] = name, also when
\* several FDEs or several symbols share a name or an address.
C17_FunctionAddressResolvesToName ==
    Loaded =>
        \A name \in DOMAIN loading.functions :
            /\ loading.functions[name].address \in DOMAIN loading.symbol_map
            /\ loading.symbol_map[loading.functions[name].address] = name

\* a Program was returned for an object with two symbols at one address and two FDEs
\* at that address
C17_Witness ==
    /\ Loaded
    /\ loading.functions # EmptyMap
    /\ \E i, j \in 1..Len(object.symbols) :
          /\ i # j
          /\ object.symbols[i].address = object.symbols[j].address
          /\ \E k, l \in 1..Len(parser.fdes) :
                /\ k # l
                /\ parser.fdes[k].begin = object.symbols[i].address
                /\ parser.fdes[l].begin = object.symbols[i].address

\* the FDEs written into the object's .eh_frame, in section order
WrittenFdes ==
    LET fdes == SelectSeq(object.written.entries, LAMBDA d : d.type = "fde")
    IN  [i \in 1..Len(fdes) |-> [begin |-> fdes[i].begin, length |-> fdes[i].length]]

\* the name of the symbol at an address: the symbol_map entry, i.e. the last symbol
\* listed at the address
HasSymbol(address) == \E i \in 1..Len(object.symbols) : object.symbols[i].address = address
SymbolAt(address) ==
    LET at == {i \in 1..Len(object.symbols) : object.symbols[i].address = address}
    IN  object.symbols[CHOOSE i \in at : \A j \in at : j <= i].name

\* the section that contains an address, and whether it contains the range
\* [begin, begin + length)
SectionsContaining(address) ==
    {i \in 1..Len(object.sections) :
        /\ object.sections[i].address <= address
        /\ address < object.sections[i].address + object.sections[i].size}
RangeInSection(begin, length) ==
    \E i \in SectionsContaining(begin) :
        begin + length <= object.sections[i].address + object.sections[i].size

\* the bytes at [begin, begin + length) of the section that contains begin
BytesAt(begin, length) ==
    LET section == object.sections[CHOOSE i \in SectionsContaining(begin) : TRUE]
    IN  [k \in 1..length |-> section.data[begin - section.address + k]]

\* C18: Program::load stores a Function for an FDE if and only if the FDE's begin is a
\* key of symbol_map: the names of functions are the symbols of the FDEs that have one,
\* each Function has the begin of such an FDE as address and exactly the length bytes at
\* [begin, begin + length) of the section containing begin as content; an FDE without a
\* symbol does not make the load fail.
C18_FunctionPerFdeWithSymbol ==
    /\ Loaded =>
          /\ DOMAIN loading.functions
                = {SymbolAt(WrittenFdes[i].begin) :
                     i \in {j \in 1..Len(WrittenFdes) : HasSymbol(WrittenFdes[j].begin)}}
          /\ \A name \in DOMAIN loading.functions :
                \E i \in 1..Len(WrittenFdes) :
                    /\ HasSymbol(WrittenFdes[i].begin)
                    /\ SymbolAt(WrittenFdes[i].begin) = name
                    /\ loading.functions[name].address = WrittenFdes[i].begin
                    /\ loading.functions[name].content
                          = BytesAt(WrittenFdes[i].begin, WrittenFdes[i].length)
    /\ loading.stage = "panic" =>
          \/ object.is_64
          \/ \E i \in 1..Len(WrittenFdes) :
                /\ HasSymbol(WrittenFdes[i].begin)
                /\ ~RangeInSection(WrittenFdes[i].begin, WrittenFdes[i].length)

\* a Program was returned with a Function from .text.startup after an FDE without a
\* symbol was skipped
C18_Witness ==
    /\ Loaded
    /\ Len(WrittenFdes) = 2
    /\ ~HasSymbol(WrittenFdes[1].begin)
    /\ \E name \in DOMAIN loading.functions :
          loading.functions[name] = [address |-> 272, content |-> <<83, 91, 195, 204>>]

\* the FDEs that resolve to a name
FdesNamed(name) ==
    {i \in 1..Len(WrittenFdes) :
        HasSymbol(WrittenFdes[i].begin) /\ SymbolAt(WrittenFdes[i].begin) = name}

\* C19: when several FDEs resolve to one name, functions holds under that name the
\* Function built from the last of them in .eh_frame order, and functions has as many
\* entries as there are distinct names.
C19_LastFdeOfANameWins ==
    Loaded =>
        /\ \A name \in DOMAIN loading.functions :
              LET last == CHOOSE i \in FdesNamed(name) : \A j \in FdesNamed(name) : j <= i
              IN  loading.functions[name]
                     = [address |-> WrittenFdes[last].begin,
                        content |-> BytesAt(WrittenFdes[last].begin, WrittenFdes[last].length)]
        /\ Cardinality(DOMAIN loading.functions)
              = Cardinality({SymbolAt(WrittenFdes[i].begin) :
                               i \in {j \in 1..Len(WrittenFdes) :
                                         HasSymbol(WrittenFdes[j].begin)}})

\* two FDEs at different addresses resolved to one name and the later one was kept
C19_Witness ==
    /\ Loaded
    /\ \E name \in DOMAIN loading.functions :
          /\ Cardinality({WrittenFdes[i].begin : i \in FdesNamed(name)}) >= 2
          /\ \E i \in FdesNamed(name) :
                loading.functions[name].address # WrittenFdes[i].begin

(***************************************************************************)
(* Properties of build_split_diff (under SpecSplit)                        *)
(***************************************************************************)
\* the rows pushed for the k-th op, once the op is handled
RowsOfOp(k) ==
    LET from == split.starts[k]
        to == IF k < Len(split.starts) THEN split.starts[k + 1] ELSE Len(split.cells)
    IN  SubSeq(split.cells, from + 1, to)

\* the row (Default(old[o]), Default(new[n])), o and n 0-based
DefaultRow(o, n) == <<Default(diff_input.old[o + 1]), Default(diff_input.new[n + 1])>>

\* C20: for an Equal op of length L >= 30 exactly 31 rows are emitted: the first 15
\* pairs (Default(old[o+i]), Default(new[n+i])), one (Collapsed, Collapsed) row, the last
\* 15 pairs; for L < 30 exactly L (Default, Default) rows and no Collapsed row. No cell
\* of an Equal op is Hidden, Insert or Delete.
C20_EqualOpRows ==
    \A k \in 1..Len(split.starts) :
        LET op == diff_input.diff_ops[k]
            rows == RowsOfOp(k)
        IN  op.tag = "Equal" =>
                IF op.len >= 30
                THEN /\ Len(rows) = 31
                     /\ \A i \in 0..14 :
                           rows[i + 1] = DefaultRow(op.old_index + i, op.new_index + i)
                     /\ rows[16] = <<Collapsed, Collapsed>>
                     /\ \A i \in 0..14 :
                           rows[17 + i] = DefaultRow(op.old_index + op.len - 15 + i,
                                                     op.new_index + op.len - 15 + i)
                ELSE /\ Len(rows) = op.len
                     /\ \A i \in 0..(op.len - 1) :
                           rows[i + 1] = DefaultRow(op.old_index + i, op.new_index + i)

\* the cells were returned for an Equal op of length 30 and, after it, an Equal op of
\* length 29 that starts at other indices
C20_Witness ==
    /\ split.stage = "done"
    /\ \E j, k \in 1..Len(split.starts) :
          /\ j < k
          /\ diff_input.diff_ops[j] = Equal(0, 0, 30)
          /\ diff_input.diff_ops[k] = Equal(1, 2, 29)

\* the cell a range of len items has in the i-th row (i 0-based) of an op that starts
\* at index: the item, marked, or Hidden past the end of the range
DeleteCell(index, len, i) ==
    IF i < len THEN Delete(diff_input.old[index + i + 1]) ELSE Hidden
InsertCell(index, len, i) ==
    IF i < len THEN Insert(diff_input.new[index + i + 1]) ELSE Hidden

\* C21: a Delete op yields one row (Delete(old_i), Hidden) per deleted instruction, an
\* Insert op one row (Hidden, Insert(new_i)) per inserted instruction, a Replace op
\* max(old_len, new_len) rows that pair Delete(old_i) with Insert(new_i) in order, with
\* Hidden on the shorter side in the trailing rows.
C21_NonEqualOpRows ==
    \A k \in 1..Len(split.starts) :
        LET op == diff_input.diff_ops[k]
            rows == RowsOfOp(k)
            longer == IF OldLen(op) >= NewLen(op) THEN OldLen(op) ELSE NewLen(op)
        IN  op.tag # "Equal" =>
                /\ Len(rows) = longer
                /\ \A i \in 0..(longer - 1) :
                      rows[i + 1] = <<DeleteCell(op.old_index, OldLen(op), i),
                                      InsertCell(op.new_index, NewLen(op), i)>>

\* the cells were returned for a Replace op with the longer old range and, after it, a
\* Replace op with the longer new range
C21_Witness ==
    /\ split.stage = "done"
    /\ \E j, k \in 1..Len(split.starts) :
          /\ j < k
          /\ diff_input.diff_ops[j] = Replace(0, 2, 1, 1)
          /\ diff_input.diff_ops[k] = Replace(0, 1, 1, 3)

\* the diff ops cover the two vectors exactly, contiguously and in order: every op starts
\* where the one before it ends, the first at 0 and the last ending at the two lengths
CoversExactly ==
    /\ \A k \in 1..Len(diff_input.diff_ops) :
          /\ diff_input.diff_ops[k].old_index = OldEnd(SubSeq(diff_input.diff_ops, 1, k - 1))
          /\ diff_input.diff_ops[k].new_index = NewEnd(SubSeq(diff_input.diff_ops, 1, k - 1))
    /\ OldEnd(diff_input.diff_ops) = Len(diff_input.old)
    /\ NewEnd(diff_input.diff_ops) = Len(diff_input.new)

\* the number of cells of a column (1 the left, 2 the right) whose kind is not in kinds
CellsNotOf(column, kinds) ==
    Cardinality({i \in 1..Len(split.cells) : split.cells[i][column].kind \notin kinds})

\* the number of instructions dropped from the middle of collapsed Equal runs
RECURSIVE DroppedFromEqualRuns(_)
DroppedFromEqualRuns(ops) ==
    IF ops = <<>> THEN 0
    ELSE (IF Head(ops).tag = "Equal" /\ Head(ops).len >= 2 * MAX_SAME_BEFORE_COLLAPSE
          THEN Head(ops).len - 2 * MAX_SAME_BEFORE_COLLAPSE ELSE 0)
         + DroppedFromEqualRuns(Tail(ops))

\* C22 as stated: for ops that cover I1 and I2 exactly, the number of cells of the left
\* column that are not Hidden is |I1| minus the number of old instructions dropped from
\* the middle of collapsed Equal runs, and the same for the right column with |I2|.
C22_NonHiddenCellCount ==
    (split.stage = "done" /\ CoversExactly) =>
        /\ CellsNotOf(1, {"Hidden"})
             = Len(diff_input.old) - DroppedFromEqualRuns(diff_input.diff_ops)
        /\ CellsNotOf(2, {"Hidden"})
             = Len(diff_input.new) - DroppedFromEqualRuns(diff_input.diff_ops)

\* C22 amended: for ops that cover I1 and I2 exactly, the number of cells of the left
\* column that are neither Hidden nor Collapsed is |I1| minus the number of old
\* instructions dropped from the middle of collapsed Equal runs, and the same for the
\* right column with |I2|.
C22_InstructionCellCount ==
    (split.stage = "done" /\ CoversExactly) =>
        /\ CellsNotOf(1, {"Hidden", "Collapsed"})
             = Len(diff_input.old) - DroppedFromEqualRuns(diff_input.diff_ops)
        /\ CellsNotOf(2, {"Hidden", "Collapsed"})
             = Len(diff_input.new) - DroppedFromEqualRuns(diff_input.diff_ops)

\* the cells were returned for ops that cover the vectors exactly: an Equal op that
\* loses an instruction in the middle and a Replace op with more new than old
C22_Witness ==
    /\ split.stage = "done"
    /\ CoversExactly
    /\ \E j, k \in 1..Len(diff_input.diff_ops) :
          /\ diff_input.diff_ops[j].tag = "Equal"
          /\ diff_input.diff_ops[j].len = 2 * MAX_SAME_BEFORE_COLLAPSE + 1
          /\ diff_input.diff_ops[k].tag = "Replace"
          /\ diff_input.diff_ops[k].new_len > diff_input.diff_ops[k].old_len

(***************************************************************************)
(* Properties of the diff of a Differs result (under SpecDiff)             *)
(***************************************************************************)
\* the diff ops of the change were captured
Captured == split.stage # "idle"

\* C23: for any Differs result the diff ops cover both vectors exactly, contiguously and
\* in order (the sum of Equal.len + Delete.old_len + Replace.old_len is |I1|, the sum of
\* Equal.len + Insert.new_len + Replace.new_len is |I2|), and every Equal op pairs only
\* structurally equal instructions.
C23_DiffTotality ==
    Captured =>
        /\ diff_input.old = I1 /\ diff_input.new = I2
        /\ CoversExactly
        /\ \A k \in 1..Len(diff_input.diff_ops) :
              diff_input.diff_ops[k].tag = "Equal" =>
                  \A i \in 1..diff_input.diff_ops[k].len :
                      StructurallyEqual(diff_input.old[diff_input.diff_ops[k].old_index + i],
                                        diff_input.new[diff_input.diff_ops[k].new_index + i])

(***************************************************************************)
(* Properties of main (under SpecMain)                                     *)
(***************************************************************************)
\* C24: started with a number of arguments other than the two binaries, the tool prints
\* a `Usage: ...` line and exits with status 2, without loading any file.
C24_WrongArgCountExitsWith2 ==
    (process.stage = "exited" /\ Len(process.args) # 3) =>
        /\ process.stdout = <<UsageLine(process.args)>>
        /\ process.status = Some(2)
        /\ process.opened = <<>>

(***************************************************************************)
(* Properties of print_changes (under SpecPrint)                           *)
(***************************************************************************)
\* C30: print_changes never reads an instruction vector out of range: for a change whose
\* diff ops cover I1 and I2 exactly, every index and range it uses is within bounds,
\* also for a Delete at the end of I2 and an Insert at the end of I1.
C30_PrintChangesInRange == CoversExactly => printed.stage # "panic"

====
